---- MODULE Spec2Model ----
(***************************************************************************)
(* The query-expression compiler of django-paradedb                        *)
(* (src/src/paradedb/search.py): the term value types, the ParadeDB        *)
(* wrapper, its operator resolver and its literal renderer.                *)
(*                                                                         *)
(* A Python str is a sequence of one-character strings.  Compiled SQL is a *)
(* sequence of tokens: the fixed fragments the code emits are one token    *)
(* each, the characters of a quoted text are one token each, and a number  *)
(* is the token str() gives it.  An optional value is None (<<>>) or       *)
(* Some(v) (<<v>>).                                                        *)
(***************************************************************************)
EXTENDS Integers, Sequences, FiniteSets, TLC

VARIABLES
    args,   \* the term objects the caller has built so far, in order
    expr,   \* None, or Some(the ParadeDB object that exists)
    out,    \* the outcome of the last call: ok or the exception, and the SQL
    call    \* the last call and the arguments it was given

vars == <<args, expr, out, call>>

----------------------------------------------------------------------------
(* Bounds *)

MaxTerms == 2

MaxLen == 4

MaxMix == 3

\* The longest tuple of PQ terms.
MaxPQ == 3

\* The longest product_ids, fields and stopwords lists of a MoreLikeThis, and
\* the longest tokenizers list and json_keys dict of a field config.
MaxList == 2

\* The most fields of a BM25Index.
MaxFields == 2

\* The most lookups of one WhereNode and the deepest nesting of WhereNodes.
MaxWhere == 2

\* The most rows the filtered table holds.
MaxRows == 2

\* The most expressions alive at once, and the most compilations of one.
MaxExprs == 2

----------------------------------------------------------------------------
(* Optional values, outcomes *)

None == <<>>

Some(v) == <<v>>

Val(o) == o[1]

Ok == [kind |-> "ok", msg |-> ""]

Raise(k, m) == [kind |-> k, msg |-> m]

Returned(r) == [kind |-> r.kind, msg |-> r.msg, sql |-> <<>>, params |-> <<>>]

----------------------------------------------------------------------------
(* Module constants and exception messages of search.py *)

_MIN_BOOST_FACTOR == -2048

_MAX_BOOST_FACTOR == 2048

MsgBoostRange == "Boost factor must be between -2048 and 2048 inclusive."

MsgMutuallyExclusive == "boost and const are mutually exclusive."

MsgPhraseSlop == "Phrase slop must be zero or positive."

MsgFuzzyNegative == "Fuzzy distance must be zero or positive."

MsgFuzzyMax == "Fuzzy distance must be <= 2."

MsgFuzzyOperator == "Fuzzy operator must be one of: OR, AND, TERM."

MsgFuzzyConst == "Fuzzy queries do not support constant scoring."

MsgProximityDistance == "Proximity distance must be zero or positive."

MsgNoTerms == "ParadeDB requires at least one search term."

MsgOperatorValue == "ParadeDB operator must be 'AND', 'OR', or 'TERM'."

MsgOperatorPlain == "ParadeDB operator is only supported with plain string terms."

MsgTokenizerPlain == "ParadeDB tokenizer is only supported with plain string terms."

MsgTokenizerTerm == "ParadeDB tokenizer cannot be used with TERM operator."

MsgBoostPlain == "ParadeDB boost is only supported with plain string terms."

MsgConstPlain == "ParadeDB const is only supported with plain string terms."

MsgPQSole == "PQ objects must be provided as the sole ParadeDB input."

MsgSingleTerm == "Parse/Term/Regex/All queries must be a single term."

MsgCannotMix == "Parse/Term/Regex/All cannot be mixed with other terms."

MsgOnlyPhrase == "Phrase searches only accept Phrase terms."

MsgOnlyProximity == "Proximity searches only accept Proximity terms."

MsgOrderedFlag == "All Proximity terms must use the same ordered flag."

MsgOnlyFuzzy == "Fuzzy searches only accept Fuzzy terms."

MsgFuzzySameOperator == "All Fuzzy terms must use the same operator."

MsgTermsStrings == "ParadeDB terms must be strings."

MsgPQInstances == "PQ objects can only be combined with PQ instances."

MsgMixedPQ == "Mixed PQ operators are not supported yet."

_DEFAULT_OPERATOR == "_DEFAULT_OPERATOR"

----------------------------------------------------------------------------
(* Scoring validation *)

_validate_boost_factor(boost) ==
    IF boost = None THEN Ok
    ELSE IF ~(_MIN_BOOST_FACTOR <= Val(boost) /\ Val(boost) <= _MAX_BOOST_FACTOR)
         THEN Raise("ValueError", MsgBoostRange)
         ELSE Ok

\* (faulty variant) the exclusion of boost and const is not checked.
validate_scoring_no_exclusion(boost, const) == _validate_boost_factor(boost)

_validate_scoring(boost, const) ==
    IF _validate_boost_factor(boost).kind # "ok" THEN _validate_boost_factor(boost)
    ELSE IF boost # None /\ const # None
         THEN Raise("ValueError", MsgMutuallyExclusive)
         ELSE Ok

----------------------------------------------------------------------------
(* The term value types and their __post_init__ validation *)

Str(text) == [kind |-> "str", text |-> text]

Phrase(text, slop, tokenizer, boost, const) ==
    [kind |-> "Phrase", text |-> text, slop |-> slop, tokenizer |-> tokenizer,
     boost |-> boost, const |-> const]

Phrase_post_init(slop, boost, const) ==
    IF slop # None /\ Val(slop) < 0 THEN Raise("ValueError", MsgPhraseSlop)
    ELSE _validate_scoring(boost, const)

Fuzzy(text, distance, prefix, transposition_cost_one, operator, boost, const) ==
    [kind |-> "Fuzzy", text |-> text, distance |-> distance, prefix |-> prefix,
     transposition_cost_one |-> transposition_cost_one, operator |-> operator,
     boost |-> boost, const |-> const]

\* (faulty variant) the largest distance accepted is 3.
Fuzzy_post_init_max_three(distance, operator, boost, const) ==
    IF distance < 0 THEN Raise("ValueError", MsgFuzzyNegative)
    ELSE IF distance > 3 THEN Raise("ValueError", MsgFuzzyMax)
    ELSE IF operator \notin {"None", "OR", "AND", "TERM"}
         THEN Raise("ValueError", MsgFuzzyOperator)
    ELSE IF const # None THEN Raise("ValueError", MsgFuzzyConst)
    ELSE _validate_scoring(boost, const)

Fuzzy_post_init(distance, operator, boost, const) ==
    IF distance < 0 THEN Raise("ValueError", MsgFuzzyNegative)
    ELSE IF distance > 2 THEN Raise("ValueError", MsgFuzzyMax)
    ELSE IF operator \notin {"None", "OR", "AND", "TERM"}
         THEN Raise("ValueError", MsgFuzzyOperator)
    ELSE IF const # None THEN Raise("ValueError", MsgFuzzyConst)
    ELSE _validate_scoring(boost, const)

Proximity(text, distance, ordered, boost, const) ==
    [kind |-> "Proximity", text |-> text, distance |-> distance,
     ordered |-> ordered, boost |-> boost, const |-> const]

Proximity_post_init(distance, boost, const) ==
    IF distance < 0 THEN Raise("ValueError", MsgProximityDistance)
    ELSE _validate_scoring(boost, const)

Parse(query, lenient, boost, const) ==
    [kind |-> "Parse", query |-> query, lenient |-> lenient,
     boost |-> boost, const |-> const]

Parse_post_init(boost, const) == _validate_scoring(boost, const)

Term(text, boost, const) ==
    [kind |-> "Term", text |-> text, boost |-> boost, const |-> const]

Term_post_init(boost, const) == _validate_scoring(boost, const)

Regex(pattern, boost, const) ==
    [kind |-> "Regex", pattern |-> pattern, boost |-> boost, const |-> const]

Regex_post_init(boost, const) == _validate_scoring(boost, const)

All == [kind |-> "All"]

----------------------------------------------------------------------------
(* PQ *)

PQ(term) == [kind |-> "PQ", terms |-> <<term>>, operator |-> "None"]

PQ_from_terms(terms, operator) ==
    [kind |-> "PQ", terms |-> terms, operator |-> operator]

\* (faulty variant) only the left operand's operator is compared.
PQ_combine_check_left_only(self, operator, other) ==
    IF other.kind # "PQ" THEN Raise("TypeError", MsgPQInstances)
    ELSE IF self.operator \notin {"None", operator}
         THEN Raise("ValueError", MsgMixedPQ)
    ELSE Ok

\* PQ._combine: the outcome, and the new PQ when it returns.
PQ_combine_check(self, operator, other) ==
    IF other.kind # "PQ" THEN Raise("TypeError", MsgPQInstances)
    ELSE IF self.operator \notin {"None", operator}
         THEN Raise("ValueError", MsgMixedPQ)
    ELSE IF other.operator \notin {"None", operator}
         THEN Raise("ValueError", MsgMixedPQ)
    ELSE Ok

PQ_combine(self, operator, other) ==
    PQ_from_terms(self.terms \o other.terms, operator)

----------------------------------------------------------------------------
(* ParadeDB.__init__ *)

NonPlainKinds ==
    {"PQ", "Phrase", "Proximity", "Fuzzy", "Parse", "Term", "Regex", "All"}

AnyNonPlain(terms) == \E i \in 1..Len(terms) : terms[i].kind \in NonPlainKinds

\* (faulty variant) an explicit operator "AND" is taken for the default.
ParadeDB_init_and_exempt(terms, operator, tokenizer, boost, const) ==
    IF Len(terms) = 0 THEN Raise("ValueError", MsgNoTerms)
    ELSE IF _validate_scoring(boost, const).kind # "ok"
         THEN _validate_scoring(boost, const)
    ELSE IF operator \notin {_DEFAULT_OPERATOR, "AND", "OR", "TERM"}
         THEN Raise("ValueError", MsgOperatorValue)
    ELSE IF operator \notin {_DEFAULT_OPERATOR, "AND"} /\ AnyNonPlain(terms)
         THEN Raise("ValueError", MsgOperatorPlain)
    ELSE IF tokenizer # None /\ AnyNonPlain(terms)
         THEN Raise("ValueError", MsgTokenizerPlain)
    ELSE IF tokenizer # None /\ operator = "TERM"
         THEN Raise("ValueError", MsgTokenizerTerm)
    ELSE IF boost # None /\ AnyNonPlain(terms)
         THEN Raise("ValueError", MsgBoostPlain)
    ELSE IF const # None /\ AnyNonPlain(terms)
         THEN Raise("ValueError", MsgConstPlain)
    ELSE Ok

ParadeDB_init(terms, operator, tokenizer, boost, const) ==
    IF Len(terms) = 0 THEN Raise("ValueError", MsgNoTerms)
    ELSE IF _validate_scoring(boost, const).kind # "ok"
         THEN _validate_scoring(boost, const)
    ELSE IF operator # _DEFAULT_OPERATOR /\ operator \notin {"AND", "OR", "TERM"}
         THEN Raise("ValueError", MsgOperatorValue)
    ELSE IF operator # _DEFAULT_OPERATOR /\ AnyNonPlain(terms)
         THEN Raise("ValueError", MsgOperatorPlain)
    ELSE IF tokenizer # None /\ AnyNonPlain(terms)
         THEN Raise("ValueError", MsgTokenizerPlain)
    ELSE IF tokenizer # None /\ operator = "TERM"
         THEN Raise("ValueError", MsgTokenizerTerm)
    ELSE IF boost # None /\ AnyNonPlain(terms)
         THEN Raise("ValueError", MsgBoostPlain)
    ELSE IF const # None /\ AnyNonPlain(terms)
         THEN Raise("ValueError", MsgConstPlain)
    ELSE Ok

ParadeDB(terms, operator, tokenizer, boost, const) ==
    [_terms |-> terms, _tokenizer |-> tokenizer, _boost |-> boost,
     _const |-> const,
     _operator_provided |-> (operator # _DEFAULT_OPERATOR),
     _operator |-> IF operator = _DEFAULT_OPERATOR THEN "AND" ELSE operator]

----------------------------------------------------------------------------
(* ParadeDB._resolve_terms *)

Resolved(operator, terms) ==
    [kind |-> "ok", msg |-> "", operator |-> operator, terms |-> terms]

Unresolved(k, m) == [kind |-> k, msg |-> m, operator |-> "", terms |-> <<>>]

AnyKind(terms, kinds) == \E i \in 1..Len(terms) : terms[i].kind \in kinds

AllKind(terms, kind) == \A i \in 1..Len(terms) : terms[i].kind = kind

\* The first branch: a PQ that is the sole term.
\* (faulty variant) the two operators are swapped.
pq_operator_swapped(pq) == IF pq.operator = "OR" THEN "&&&" ELSE "|||"

pq_operator(pq) == IF pq.operator = "OR" THEN "|||" ELSE "&&&"

resolve_pq(terms) ==
    Resolved(pq_operator(terms[1]),
             [i \in 1..Len(terms[1].terms) |-> Str(terms[1].terms[i])])

\* The Parse/Term/Regex/All branch.
\* (faulty variant) the number of terms is not checked.
resolve_query_any_length(terms) == Resolved("@@@", terms)

\* (faulty variant) the type of the first term is checked before the length.
resolve_query_type_first(terms) ==
    IF terms[1].kind \notin {"Parse", "Term", "Regex", "All"}
    THEN Unresolved("TypeError", MsgCannotMix)
    ELSE IF Len(terms) # 1 THEN Unresolved("ValueError", MsgSingleTerm)
    ELSE Resolved("@@@", <<terms[1]>>)

resolve_query(terms) ==
    IF Len(terms) # 1 THEN Unresolved("ValueError", MsgSingleTerm)
    ELSE IF terms[1].kind \notin {"Parse", "Term", "Regex", "All"}
         THEN Unresolved("TypeError", MsgCannotMix)
    ELSE Resolved("@@@", <<terms[1]>>)

\* The Phrase branch.
\* (faulty variant) the other terms are not checked.
resolve_phrase_unchecked(terms) == Resolved("###", terms)

resolve_phrase(terms) ==
    IF ~AllKind(terms, "Phrase") THEN Unresolved("TypeError", MsgOnlyPhrase)
    ELSE Resolved("###", terms)

\* The Proximity branch.
resolve_proximity(terms) ==
    IF ~AllKind(terms, "Proximity")
    THEN Unresolved("TypeError", MsgOnlyProximity)
    ELSE IF Cardinality({terms[i].ordered : i \in 1..Len(terms)}) # 1
         THEN Unresolved("ValueError", MsgOrderedFlag)
    ELSE Resolved(IF terms[1].ordered THEN "##>" ELSE "##", terms)

\* The Fuzzy branch.
\* (faulty variant) a term without operator goes along with any other.
resolve_fuzzy_none_with_any(terms) ==
    IF ~AllKind(terms, "Fuzzy") THEN Unresolved("TypeError", MsgOnlyFuzzy)
    ELSE LET given == {terms[i].operator : i \in 1..Len(terms)} \ {"None"}
         IN  IF given \subseteq {"OR"} THEN Resolved("|||", terms)
             ELSE IF given = {"AND"} THEN Resolved("&&&", terms)
             ELSE IF given = {"TERM"} THEN Resolved("===", terms)
             ELSE Unresolved("ValueError", MsgFuzzySameOperator)

resolve_fuzzy(terms) ==
    IF ~AllKind(terms, "Fuzzy") THEN Unresolved("TypeError", MsgOnlyFuzzy)
    ELSE LET fuzzy_operators == {terms[i].operator : i \in 1..Len(terms)}
         IN  IF fuzzy_operators \subseteq {"None", "OR"}
             THEN Resolved("|||", terms)
             ELSE IF fuzzy_operators = {"AND"} THEN Resolved("&&&", terms)
             ELSE IF fuzzy_operators = {"TERM"} THEN Resolved("===", terms)
             ELSE Unresolved("ValueError", MsgFuzzySameOperator)

\* The plain-string branch.
\* (faulty variant) OR is the default operator.
plain_operator_or_default(operator) ==
    IF operator = "TERM" THEN "===" ELSE "|||"

plain_operator(operator) ==
    IF operator = "OR" THEN "|||"
    ELSE IF operator = "TERM" THEN "==="
    ELSE "&&&"

resolve_plain(self) ==
    IF ~AllKind(self._terms, "str") THEN Unresolved("TypeError", MsgTermsStrings)
    ELSE Resolved(plain_operator(self._operator), self._terms)

\* (faulty variant) a PQ in first place is taken for the sole term.
resolve_terms_pq_first_only(self) ==
    IF self._terms[1].kind = "PQ" THEN resolve_pq(self._terms)
    ELSE IF AnyKind(self._terms, {"Parse", "Term", "Regex", "All"})
         THEN resolve_query(self._terms)
    ELSE IF AnyKind(self._terms, {"Phrase"}) THEN resolve_phrase(self._terms)
    ELSE IF AnyKind(self._terms, {"Proximity"})
         THEN resolve_proximity(self._terms)
    ELSE IF AnyKind(self._terms, {"Fuzzy"}) THEN resolve_fuzzy(self._terms)
    ELSE resolve_plain(self)

\* (faulty variant) the Fuzzy family is looked for before the Phrase family.
resolve_terms_fuzzy_before_phrase(self) ==
    IF Len(self._terms) = 1 /\ self._terms[1].kind = "PQ"
    THEN resolve_pq(self._terms)
    ELSE IF AnyKind(self._terms, {"PQ"})
         THEN Unresolved("ValueError", MsgPQSole)
    ELSE IF AnyKind(self._terms, {"Parse", "Term", "Regex", "All"})
         THEN resolve_query(self._terms)
    ELSE IF AnyKind(self._terms, {"Fuzzy"}) THEN resolve_fuzzy(self._terms)
    ELSE IF AnyKind(self._terms, {"Phrase"}) THEN resolve_phrase(self._terms)
    ELSE IF AnyKind(self._terms, {"Proximity"})
         THEN resolve_proximity(self._terms)
    ELSE resolve_plain(self)

_resolve_terms(self) ==
    IF Len(self._terms) = 1 /\ self._terms[1].kind = "PQ"
    THEN resolve_pq(self._terms)
    ELSE IF AnyKind(self._terms, {"PQ"})
         THEN Unresolved("ValueError", MsgPQSole)
    ELSE IF AnyKind(self._terms, {"Parse", "Term", "Regex", "All"})
         THEN resolve_query(self._terms)
    ELSE IF AnyKind(self._terms, {"Phrase"}) THEN resolve_phrase(self._terms)
    ELSE IF AnyKind(self._terms, {"Proximity"})
         THEN resolve_proximity(self._terms)
    ELSE IF AnyKind(self._terms, {"Fuzzy"}) THEN resolve_fuzzy(self._terms)
    ELSE resolve_plain(self)

----------------------------------------------------------------------------
(* Rendering: _quote_term, _append_scoring, _render_options, _render_term *)

RECURSIVE replace_quote_idempotent(_)
\* (faulty variant) a quote that is already doubled is left as it is.
replace_quote_idempotent(s) ==
    IF s = <<>> THEN <<>>
    ELSE IF Len(s) >= 2 /\ s[1] = "'" /\ s[2] = "'"
         THEN <<"'", "'">> \o replace_quote_idempotent(Tail(Tail(s)))
    ELSE (IF s[1] = "'" THEN <<"'", "'">> ELSE <<s[1]>>)
            \o replace_quote_idempotent(Tail(s))

RECURSIVE replace_quote(_)
\* str.replace("'", "''")
replace_quote(s) ==
    IF s = <<>> THEN <<>>
    ELSE (IF s[1] = "'" THEN <<"'", "'">> ELSE <<s[1]>>) \o replace_quote(Tail(s))

_quote_term(term) == <<"'">> \o replace_quote(term) \o <<"'">>

_append_scoring(sql, boost, const) ==
    LET boosted == IF boost # None
                   THEN sql \o <<"::pdb.boost(", ToString(Val(boost)), ")">>
                   ELSE sql
    IN  IF const # None
        THEN boosted \o <<"::pdb.const(", ToString(Val(const)), ")">>
        ELSE boosted

_render_value(value) == IF value THEN <<"true">> ELSE <<"false">>

\* _render_options({'lenient': lenient})
_render_options(lenient) ==
    IF lenient = None THEN <<>>
    ELSE <<", ", "lenient", " => ">> \o _render_value(Val(lenient))

render_phrase(term) ==
    LET quoted == _quote_term(term.text)
        slopped == IF term.slop # None
                   THEN quoted \o <<"::pdb.slop(", ToString(Val(term.slop)), ")">>
                   ELSE quoted
        literal == IF term.tokenizer # None
                   THEN slopped \o <<"::pdb.">> \o Val(term.tokenizer)
                   ELSE slopped
    IN  _append_scoring(literal, term.boost, term.const)

render_proximity(term) ==
    _append_scoring(
        _quote_term(term.text) \o <<"::pdb.proximity(", ToString(term.distance), ")">>,
        term.boost, term.const)

render_fuzzy(term) ==
    LET fuzzy_args ==
            IF term.transposition_cost_one
            THEN <<ToString(term.distance), ", ",
                   IF term.prefix THEN "t" ELSE "f", ", ", "t">>
            ELSE IF term.prefix THEN <<ToString(term.distance), ", ", "t">>
            ELSE <<ToString(term.distance)>>
    IN  _append_scoring(
            _quote_term(term.text) \o <<"::pdb.fuzzy(">> \o fuzzy_args \o <<")">>,
            term.boost, term.const)

render_parse(term) ==
    _append_scoring(
        <<"pdb.parse(">> \o _quote_term(term.query)
            \o _render_options(term.lenient) \o <<")">>,
        term.boost, term.const)

render_term(term) ==
    _append_scoring(<<"pdb.term(">> \o _quote_term(term.text) \o <<")">>,
                    term.boost, term.const)

render_regex(term) ==
    _append_scoring(<<"pdb.regex(">> \o _quote_term(term.pattern) \o <<")">>,
                    term.boost, term.const)

render_plain(self, term) ==
    LET quoted == _quote_term(term.text)
        rendered == IF self._tokenizer # None
                    THEN quoted \o <<"::pdb.">> \o Val(self._tokenizer)
                    ELSE quoted
    IN  _append_scoring(rendered, self._boost, self._const)

_render_term(self, term) ==
    IF term.kind = "Phrase" THEN render_phrase(term)
    ELSE IF term.kind = "Proximity" THEN render_proximity(term)
    ELSE IF term.kind = "Fuzzy" THEN render_fuzzy(term)
    ELSE IF term.kind = "Parse" THEN render_parse(term)
    ELSE IF term.kind = "Term" THEN render_term(term)
    ELSE IF term.kind = "Regex" THEN render_regex(term)
    ELSE IF term.kind = "All" THEN <<"pdb.all()">>
    ELSE render_plain(self, term)

----------------------------------------------------------------------------
(* ParadeDB.as_sql *)

RECURSIVE join(_, _)
\* sep.join(parts)
join(parts, sep) ==
    IF parts = <<>> THEN <<>>
    ELSE IF Len(parts) = 1 THEN parts[1]
    ELSE parts[1] \o sep \o join(Tail(parts), sep)

as_sql(self, lhs_sql) ==
    LET resolved == _resolve_terms(self)
        literals == [i \in 1..Len(resolved.terms) |->
                        _render_term(self, resolved.terms[i])]
    IN  IF resolved.kind # "ok"
        THEN [kind |-> resolved.kind, msg |-> resolved.msg,
              sql |-> <<>>, params |-> <<>>]
        ELSE IF Len(literals) = 1
        THEN [kind |-> "ok", msg |-> "",
              sql |-> lhs_sql \o <<" ", resolved.operator, " ">> \o literals[1],
              params |-> <<>>]
        ELSE [kind |-> "ok", msg |-> "",
              sql |-> lhs_sql \o <<" ", resolved.operator, " ", "ARRAY[">>
                        \o join(literals, <<", ">>) \o <<"]">>,
              params |-> <<>>]

----------------------------------------------------------------------------
(* The inputs the calls are given *)

Chars == {"a", "'", " "}

Texts == UNION {[1..n -> Chars] : n \in 0..MaxLen}

StrTexts == {<<"a">>, <<"i", "t", "'", "s">>}

WordTexts == {<<"a", "'">>}

ProximityTexts == {<<"a">>, <<"a", " ", "b">>, <<"a", " ", "b", " ", "c">>}

Whitespace == <<"w", "h", "i", "t", "e", "s", "p", "a", "c", "e">>

BadTokenizer == <<"b", "a", "d", "-", "t", "o", "k", ";">>

BadPhraseTokenizer == <<"b", "a", "d", " ", "t", "o", "k">>

BoostIn == {None, Some(2), Some(2049)}

ConstIn == {None, Some(1)}

Count(flags) == Cardinality({i \in 1..Len(flags) : flags[i]})

Scored(i) == i.boost # None \/ i.const # None

\* A constructor is given every input it rejects, and of those it accepts the
\* ones that differ from the defaults in at most one respect.
PhraseIn ==
    {i \in [text : WordTexts, slop : {None, Some(-1), Some(1)},
            tokenizer : {None, Some(Whitespace), Some(BadPhraseTokenizer)},
            boost : BoostIn, const : ConstIn] :
        \/ Phrase_post_init(i.slop, i.boost, i.const).kind # "ok"
        \/ Count(<<i.slop # None, i.tokenizer # None, Scored(i)>>) <= 1}

FuzzyIn ==
    {i \in [text : WordTexts, distance : -1..3, prefix : BOOLEAN,
            transposition_cost_one : BOOLEAN,
            operator : {"None", "OR", "AND", "TERM", "NOT"},
            boost : BoostIn, const : ConstIn] :
        \/ Fuzzy_post_init(i.distance, i.operator, i.boost, i.const).kind # "ok"
        \/ Count(<<i.distance # 1, i.prefix \/ i.transposition_cost_one,
                   i.operator # "None", Scored(i)>>) <= 1}

ProximityIn ==
    {i \in [text : ProximityTexts, distance : {-1, 2}, ordered : BOOLEAN,
            boost : BoostIn, const : ConstIn] :
        \/ Proximity_post_init(i.distance, i.boost, i.const).kind # "ok"
        \/ Count(<<i.text # <<"a", " ", "b">>, i.ordered, Scored(i)>>) <= 1}

ParseIn ==
    {i \in [query : WordTexts, lenient : {None, Some(TRUE), Some(FALSE)},
            boost : BoostIn, const : ConstIn] :
        \/ Parse_post_init(i.boost, i.const).kind # "ok"
        \/ Count(<<i.lenient # None, Scored(i)>>) <= 1}

ScoredTextIn == [text : WordTexts, boost : BoostIn, const : ConstIn]

ParadeDBIn ==
    [operator : {_DEFAULT_OPERATOR, "AND", "OR", "TERM", "NOT"},
     tokenizer : {None, Some(Whitespace), Some(BadTokenizer)},
     boost : BoostIn, const : ConstIn]

Lhs == <<"L">>

----------------------------------------------------------------------------------------------------------------------------------------
(* The state machine: a caller builds terms, wraps them in a ParadeDB        *)
(* expression and compiles it.  An exception propagates to the caller, who   *)
(* abandons what was built and starts again.                                 *)

Init ==
    /\ args = <<>>
    /\ expr = None
    /\ out = Returned(Ok)
    /\ call = [op |-> "none", given |-> [none |-> TRUE]]

CanBuild(limit) == expr = None /\ out.kind = "ok" /\ Len(args) < limit

Built(r, obj) == IF r.kind = "ok" THEN Append(args, obj) ELSE <<>>

NewStr(limit, text) ==
    /\ CanBuild(limit)
    /\ call' = [op |-> "str", given |-> [text |-> text]]
    /\ out' = Returned(Ok)
    /\ args' = Append(args, Str(text))
    /\ UNCHANGED expr

NewPQ(limit, term) ==
    /\ CanBuild(limit)
    /\ call' = [op |-> "PQ", given |-> [term |-> term]]
    /\ out' = Returned(Ok)
    /\ args' = Append(args, PQ(term))
    /\ UNCHANGED expr

NewPhrase(limit, i) ==
    /\ CanBuild(limit)
    /\ call' = [op |-> "Phrase", given |-> i]
    /\ out' = Returned(Phrase_post_init(i.slop, i.boost, i.const))
    /\ args' = Built(Phrase_post_init(i.slop, i.boost, i.const),
                     Phrase(i.text, i.slop, i.tokenizer, i.boost, i.const))
    /\ UNCHANGED expr

NewFuzzy(limit, i) ==
    /\ CanBuild(limit)
    /\ call' = [op |-> "Fuzzy", given |-> i]
    /\ out' = Returned(Fuzzy_post_init(i.distance, i.operator, i.boost, i.const))
    /\ args' = Built(Fuzzy_post_init(i.distance, i.operator, i.boost, i.const),
                     Fuzzy(i.text, i.distance, i.prefix,
                           i.transposition_cost_one, i.operator, i.boost,
                           i.const))
    /\ UNCHANGED expr

NewProximity(limit, i) ==
    /\ CanBuild(limit)
    /\ call' = [op |-> "Proximity", given |-> i]
    /\ out' = Returned(Proximity_post_init(i.distance, i.boost, i.const))
    /\ args' = Built(Proximity_post_init(i.distance, i.boost, i.const),
                     Proximity(i.text, i.distance, i.ordered, i.boost, i.const))
    /\ UNCHANGED expr

NewParse(limit, i) ==
    /\ CanBuild(limit)
    /\ call' = [op |-> "Parse", given |-> i]
    /\ out' = Returned(Parse_post_init(i.boost, i.const))
    /\ args' = Built(Parse_post_init(i.boost, i.const),
                     Parse(i.query, i.lenient, i.boost, i.const))
    /\ UNCHANGED expr

NewTerm(limit, i) ==
    /\ CanBuild(limit)
    /\ call' = [op |-> "Term", given |-> i]
    /\ out' = Returned(Term_post_init(i.boost, i.const))
    /\ args' = Built(Term_post_init(i.boost, i.const),
                     Term(i.text, i.boost, i.const))
    /\ UNCHANGED expr

NewRegex(limit, i) ==
    /\ CanBuild(limit)
    /\ call' = [op |-> "Regex", given |-> i]
    /\ out' = Returned(Regex_post_init(i.boost, i.const))
    /\ args' = Built(Regex_post_init(i.boost, i.const),
                     Regex(i.text, i.boost, i.const))
    /\ UNCHANGED expr

NewAll(limit) ==
    /\ CanBuild(limit)
    /\ call' = [op |-> "All", given |-> [none |-> TRUE]]
    /\ out' = Returned(Ok)
    /\ args' = Append(args, All)
    /\ UNCHANGED expr

\* self | other and self & other on the two terms built last; the result takes
\* their place.
Combine(limit, operator) ==
    /\ expr = None
    /\ out.kind = "ok"
    /\ Len(args) >= 2
    /\ LET self == args[Len(args) - 1]
           other == args[Len(args)]
           r == PQ_combine_check(self, operator, other)
       IN  /\ self.kind = "PQ"
           /\ other.kind = "PQ" => Len(self.terms) + Len(other.terms) <= limit
           /\ call' = [op |-> "_combine",
                       given |-> [self |-> self, operator |-> operator,
                                  other |-> other]]
           /\ out' = Returned(r)
           /\ args' = IF r.kind = "ok"
                      THEN Append(SubSeq(args, 1, Len(args) - 2),
                                  PQ_combine(self, operator, other))
                      ELSE <<>>
    /\ UNCHANGED expr

NewParadeDB(i) ==
    /\ expr = None
    /\ out.kind = "ok"
    /\ LET r == ParadeDB_init(args, i.operator, i.tokenizer, i.boost, i.const)
       IN  /\ call' = [op |-> "ParadeDB",
                       given |-> [kinds |-> [k \in 1..Len(args) |-> args[k].kind],
                                  operator |-> i.operator,
                                  tokenizer |-> i.tokenizer,
                                  boost |-> i.boost, const |-> i.const]]
           /\ out' = Returned(r)
           /\ expr' = IF r.kind = "ok"
                      THEN Some(ParadeDB(args, i.operator, i.tokenizer,
                                         i.boost, i.const))
                      ELSE None
    /\ args' = <<>>

Compile ==
    /\ expr # None
    /\ call' = [op |-> "as_sql", given |-> [lhs_sql |-> Lhs]]
    /\ out' = as_sql(Val(expr), Lhs)
    /\ UNCHANGED <<args, expr>>

\* The static method applied to a text on its own.
Quote(term) ==
    /\ expr = None
    /\ out.kind = "ok"
    /\ args = <<>>
    /\ call' = [op |-> "_quote_term", given |-> [term |-> term]]
    /\ out' = [kind |-> "ok", msg |-> "", sql |-> _quote_term(term),
               params |-> <<>>]
    /\ UNCHANGED <<args, expr>>

Restart ==
    /\ expr # None \/ out.kind # "ok"
    /\ args' = <<>>
    /\ expr' = None
    /\ out' = Returned(Ok)
    /\ call' = [op |-> "none", given |-> [none |-> TRUE]]

Next ==
    \/ \E text \in StrTexts : NewStr(MaxTerms, text)
    \/ \E term \in WordTexts : NewPQ(MaxTerms, term)
    \/ \E i \in PhraseIn : NewPhrase(MaxTerms, i)
    \/ \E i \in FuzzyIn : NewFuzzy(MaxTerms, i)
    \/ \E i \in ProximityIn : NewProximity(MaxTerms, i)
    \/ \E i \in ParseIn : NewParse(MaxTerms, i)
    \/ \E i \in ScoredTextIn : NewTerm(MaxTerms, i)
    \/ \E i \in ScoredTextIn : NewRegex(MaxTerms, i)
    \/ NewAll(MaxTerms)
    \/ \E operator \in {"OR", "AND"} : Combine(MaxTerms, operator)
    \/ \E i \in ParadeDBIn : NewParadeDB(i)
    \/ Compile
    \/ \E term \in Texts : Quote(term)
    \/ Restart

Spec == Init /\ [][Next]_vars

----------------------------------------------------------------------------
(* Mixed tuples: longer tuples of terms that differ in kind, each term with  *)
(* the defaults of its kind but for the flag the resolver reads.             *)

Plain(i) == ~Scored(i)

PhraseMixIn == {i \in PhraseIn : i.slop = None /\ i.tokenizer = None /\ Plain(i)}

FuzzyMixIn ==
    {i \in FuzzyIn : /\ i.distance = 1 /\ ~i.prefix /\ ~i.transposition_cost_one
                     /\ i.operator # "NOT" /\ Plain(i)}

ProximityMixIn ==
    {i \in ProximityIn : i.text = <<"a", " ", "b">> /\ i.distance = 2 /\ Plain(i)}

ParseMixIn == {i \in ParseIn : i.lenient = None /\ Plain(i)}

ScoredTextMixIn == {i \in ScoredTextIn : Plain(i)}

ParadeDBMixIn ==
    {i \in ParadeDBIn :
        /\ i.operator # "NOT"
        /\ i.tokenizer # Some(BadTokenizer)
        /\ i.boost # Some(2049)
        /\ Count(<<i.operator # _DEFAULT_OPERATOR, i.tokenizer # None,
                   i.boost # None, i.const # None>>) <= 1}

NextMix ==
    \/ \E text \in {<<"a">>} : NewStr(MaxMix, text)
    \/ \E term \in WordTexts : NewPQ(MaxMix, term)
    \/ \E i \in PhraseMixIn : NewPhrase(MaxMix, i)
    \/ \E i \in FuzzyMixIn : NewFuzzy(MaxMix, i)
    \/ \E i \in ProximityMixIn : NewProximity(MaxMix, i)
    \/ \E i \in ParseMixIn : NewParse(MaxMix, i)
    \/ \E i \in ScoredTextMixIn : NewTerm(MaxMix, i)
    \/ \E i \in ScoredTextMixIn : NewRegex(MaxMix, i)
    \/ NewAll(MaxMix)
    \/ \E operator \in {"OR", "AND"} : Combine(MaxMix, operator)
    \/ \E i \in ParadeDBMixIn : NewParadeDB(i)
    \/ Compile
    \/ Restart

SpecMix == Init /\ [][NextMix]_vars

(* A third specification, for PQ alone: PQs over two texts are combined with *)
(* each other and with a plain string, and a ParadeDB without modifiers is   *)
(* built from the result.                                                    *)

NextPQ ==
    \/ \E text \in {<<"a">>} : NewStr(MaxPQ, text)
    \/ \E term \in StrTexts : NewPQ(MaxPQ, term)
    \/ \E operator \in {"OR", "AND"} : Combine(MaxPQ, operator)
    \/ \E i \in {i \in ParadeDBMixIn :
                    /\ i.operator = _DEFAULT_OPERATOR /\ i.tokenizer = None
                    /\ i.boost = None /\ i.const = None} : NewParadeDB(i)
    \/ Compile
    \/ Restart

SpecPQ == Init /\ [][NextPQ]_vars

----------------------------------------------------------------------------
(* MoreLikeThis *)

\* A Python value with its type: an int, a str, a dict.
PyInt(v) == [int |-> v]

PyStr(v) == [str |-> v]

PyDict(v) == [dict |-> v]

IsStr(v) == DOMAIN v = {"str"}

\* The numeric parameters in the order of numeric_params, with the option
\* keys that _render_mlt_call gives them.
NumericParams ==
    <<"min_term_freq", "max_query_terms", "min_doc_freq", "max_term_freq",
      "max_doc_freq", "min_word_length", "max_word_length">>

OptionKeys ==
    <<"min_term_frequency", "max_query_terms", "min_doc_frequency",
      "max_term_frequency", "max_doc_frequency", "min_word_length",
      "max_word_length">>

\* MoreLikeThis.__init__: the fields of the object before _validate.
MoreLikeThis(i) ==
    [kind |-> "MoreLikeThis", product_id |-> i.product_id,
     product_ids |-> i.product_ids, document |-> None,
     _document_input |-> i.document, fields |-> i.fields,
     numeric |-> i.numeric, stopwords |-> i.stopwords]

\* (faulty variant) only the absence of every input source is rejected.
input_sources_at_least_one(self) ==
    Count(<<self.product_id # None, self.product_ids # None,
            self._document_input # None>>) >= 1

input_sources_exactly_one(self) ==
    Count(<<self.product_id # None, self.product_ids # None,
            self._document_input # None>>) = 1

\* MoreLikeThis._validate: the outcome.
MoreLikeThis_validate(self) ==
    LET bad == {k \in 1..Len(self.numeric) :
                    self.numeric[k] # None
                    /\ (IsStr(Val(self.numeric[k])) \/ Val(self.numeric[k]).int < 1)}
        first == CHOOSE k \in bad : \A j \in bad : k <= j
    IN  IF ~input_sources_exactly_one(self)
        THEN Raise("ValueError", "MoreLikeThis requires exactly one input source.")
        ELSE IF self.product_ids # None /\ Val(self.product_ids) = <<>>
        THEN Raise("ValueError", "MoreLikeThis product_ids cannot be empty.")
        ELSE IF /\ self._document_input # None
                /\ self.fields # None /\ Val(self.fields) # <<>>
        THEN Raise("ValueError",
                   "MoreLikeThis fields are only valid with product_id(s).")
        ELSE IF /\ self._document_input # None
                /\ DOMAIN Val(self._document_input) \notin {{"dict"}, {"str"}}
        THEN Raise("ValueError",
                   "MoreLikeThis document must be a dict or JSON string.")
        ELSE IF bad = {} THEN Ok
        ELSE IF IsStr(Val(self.numeric[first]))
        THEN Raise("TypeError", "MoreLikeThis " \o NumericParams[first]
                                    \o " must be an integer.")
        ELSE Raise("ValueError", "MoreLikeThis " \o NumericParams[first]
                                    \o " must be >= 1.")

\* The object once _validate has returned: the document is a JSON string,
\* json.dumps of the dict (of one key and one integer value) if one was given.
MoreLikeThis_validated(self) ==
    [self EXCEPT !.document =
        IF self._document_input = None THEN None
        ELSE IF IsStr(Val(self._document_input)) THEN self._document_input
        ELSE Some(PyStr("{\"" \o Val(self._document_input).dict \o "\": 1}"))]

\* "%s" once for each element, separated by ", ".
placeholders(values) == join([k \in 1..Len(values) |-> <<"%s">>], <<", ">>)

\* (faulty variant) an empty stopwords list is rendered like any other.
stopwords_rendered_when_listed(stopwords) == stopwords # None

stopwords_rendered(stopwords) == stopwords # None /\ Val(stopwords) # <<>>

\* MoreLikeThis._render_options: the SQL and the parameters.
MoreLikeThis_render_options(self) ==
    LET numbers == SelectSeq([k \in 1..Len(self.numeric) |-> k],
                             LAMBDA k : self.numeric[k] # None)
        rendered ==
            [k \in 1..Len(numbers) |->
                <<OptionKeys[numbers[k]], " => ",
                  ToString(Val(self.numeric[numbers[k]]).int)>>]
            \o (IF stopwords_rendered(self.stopwords)
                THEN << <<"stopwords", " => ", "ARRAY[">>
                            \o placeholders(Val(self.stopwords)) \o <<"]">> >>
                ELSE <<>>)
    IN  IF rendered = <<>> THEN [sql |-> <<>>, params |-> <<>>]
        ELSE [sql |-> <<", ">> \o join(rendered, <<", ">>),
              params |-> IF stopwords_rendered(self.stopwords)
                         THEN Val(self.stopwords) ELSE <<>>]

\* (faulty variant) the stopwords are bound before the fields.
render_mlt_call_options_first(self, value) ==
    LET with_fields ==
            self.fields # None /\ Val(self.fields) # <<>> /\ ~IsStr(value)
        options == MoreLikeThis_render_options(self)
    IN  [sql |-> <<"pdb.more_like_this(", "%s">>
                    \o (IF with_fields
                        THEN <<", ", "ARRAY[">> \o placeholders(Val(self.fields))
                                \o <<"]::text[]">>
                        ELSE <<>>)
                    \o options.sql \o <<")">>,
         params |-> <<value>> \o options.params
                        \o (IF with_fields THEN Val(self.fields) ELSE <<>>)]

\* MoreLikeThis._render_mlt_call
_render_mlt_call(self, value) ==
    LET with_fields ==
            self.fields # None /\ Val(self.fields) # <<>> /\ ~IsStr(value)
        options == MoreLikeThis_render_options(self)
    IN  [sql |-> <<"pdb.more_like_this(", "%s">>
                    \o (IF with_fields
                        THEN <<", ", "ARRAY[">> \o placeholders(Val(self.fields))
                                \o <<"]::text[]">>
                        ELSE <<>>)
                    \o options.sql \o <<")">>,
         params |-> <<value>> \o (IF with_fields THEN Val(self.fields) ELSE <<>>)
                        \o options.params]

\* MoreLikeThis.as_sql, with pk_sql the quoted key column.
MoreLikeThis_as_sql(self, pk_sql) ==
    LET one(value) ==
            LET mlt == _render_mlt_call(self, value)
            IN  [sql |-> pk_sql \o <<" @@@ ">> \o mlt.sql, params |-> mlt.params]
    IN  IF self.product_ids # None
        THEN LET ids == Val(self.product_ids)
                 calls == [k \in 1..Len(ids) |-> one(ids[k])]
             IN  [kind |-> "ok", msg |-> "",
                  sql |-> <<"(">>
                            \o join([k \in 1..Len(ids) |-> calls[k].sql], <<" OR ">>)
                            \o <<")">>,
                  params |-> join([k \in 1..Len(ids) |-> calls[k].params], <<>>)]
        ELSE LET call_ == IF self.product_id # None
                          THEN one(Val(self.product_id))
                          ELSE one(Val(self.document))
             IN  [kind |-> "ok", msg |-> "", sql |-> call_.sql,
                  params |-> call_.params]

\* The arguments of MoreLikeThis(...): every combination of input sources,
\* lists of up to MaxList elements, and one numeric parameter at most.
MoreLikeThisIn ==
    LET lists(item(_)) ==
            {None} \cup {Some([k \in 1..n |-> item(k)]) : n \in 0..MaxList}
        numeric(p, v) ==
            [k \in 1..Len(NumericParams) |-> IF k = p THEN Some(v) ELSE None]
    IN  [product_id : {None, Some(PyInt(7))},
         product_ids : lists(LAMBDA k : PyInt(k)),
         document : {None, Some(PyStr("{}")), Some(PyDict("title")),
                     Some(PyInt(5))},
         fields : lists(LAMBDA k : PyStr("f" \o ToString(k))),
         numeric : {numeric(p, v) : p \in 0..Len(NumericParams),
                                    v \in {PyInt(0), PyInt(2), PyStr("2")}},
         stopwords : lists(LAMBDA k : PyStr("w" \o ToString(k)))]

NewMoreLikeThis(i) ==
    /\ expr = None
    /\ out.kind = "ok"
    /\ LET self == MoreLikeThis(i)
           r == MoreLikeThis_validate(self)
       IN  /\ call' = [op |-> "MoreLikeThis", given |-> i]
           /\ out' = Returned(r)
           /\ expr' = IF r.kind = "ok" THEN Some(MoreLikeThis_validated(self))
                      ELSE None
    /\ UNCHANGED args

CompileMoreLikeThis ==
    /\ expr # None
    /\ call' = [op |-> "MoreLikeThis.as_sql", given |-> [pk_sql |-> Lhs]]
    /\ out' = MoreLikeThis_as_sql(Val(expr), Lhs)
    /\ UNCHANGED <<args, expr>>

NextMLT ==
    \/ \E i \in MoreLikeThisIn : NewMoreLikeThis(i)
    \/ CompileMoreLikeThis
    \/ Restart

SpecMLT == Init /\ [][NextMLT]_vars

----------------------------------------------------------------------------
(* indexes.py: BM25Index and the tokenizer configuration it renders.         *)
(* A dict is a sequence of [key, value] pairs in insertion order; a          *)
(* tokenizer is a sequence of characters; an error message is the sequence   *)
(* of its parts.                                                             *)

PyBool(v) == [bool |-> v]

PyNone == [none |-> TRUE]

\* _render_sql_arg, for the bool, int, None and str values given here.
_render_sql_arg(value) ==
    IF DOMAIN value = {"none"} THEN <<"null">>
    ELSE IF DOMAIN value = {"bool"} THEN <<IF value.bool THEN "true" ELSE "false">>
    ELSE IF DOMAIN value = {"int"} THEN <<ToString(value.int)>>
    ELSE _quote_term(<<value.str>>)

\* _render_config_value, for the same values.
_render_config_value(value) ==
    IF DOMAIN value = {"none"} THEN "null"
    ELSE IF DOMAIN value = {"bool"} THEN (IF value.bool THEN "true" ELSE "false")
    ELSE IF DOMAIN value = {"int"} THEN ToString(value.int)
    ELSE value.str

\* (faulty variant) a pre-rendered tokenizer is taken for a bare name.
is_any_tokenizer_name(tokenizer) == tokenizer # <<>>

\* re.fullmatch(r"[A-Za-z_][A-Za-z0-9_]*", tokenizer), over the characters
\* the tokenizers given here are made of.
_is_bare_tokenizer_name(tokenizer) ==
    LET letters == {"a", "e", "g", "i", "l", "m", "n", "p", "r", "s", "_"}
        digits == {"3", "8"}
    IN  /\ tokenizer # <<>>
        /\ tokenizer[1] \in letters
        /\ \A k \in 1..Len(tokenizer) : tokenizer[k] \in letters \cup digits

\* (faulty variant) setdefault assigns the key it finds.
dict_put_always(d, key, value, overwrite) ==
    IF \E k \in 1..Len(d) : d[k].key = key
    THEN [k \in 1..Len(d) |->
            IF d[k].key = key THEN [key |-> key, value |-> value] ELSE d[k]]
    ELSE Append(d, [key |-> key, value |-> value])

\* config_parts[key] = value, and config_parts.setdefault(key, value).
dict_put(d, key, value, overwrite) ==
    IF \E k \in 1..Len(d) : d[k].key = key
    THEN IF overwrite
         THEN [k \in 1..Len(d) |->
                    IF d[k].key = key THEN [key |-> key, value |-> value] ELSE d[k]]
         ELSE d
    ELSE Append(d, [key |-> key, value |-> value])

RECURSIVE with_named_args(_, _)
\* for key, value in named_args.items(): config_parts[str(key)] = ...
with_named_args(config_parts, named_args) ==
    IF named_args = <<>> THEN config_parts
    ELSE with_named_args(
            dict_put(config_parts, Head(named_args).key,
                     _render_config_value(Head(named_args).value), TRUE),
            Tail(named_args))

RECURSIVE with_filters(_, _, _)
\* for name in filters: config_parts.setdefault(...)
with_filters(config_parts, filters, stemmer) ==
    IF filters = <<>> THEN config_parts
    ELSE with_filters(
            IF Head(filters) = "stemmer" /\ stemmer \notin {None, Some("")}
            THEN dict_put(config_parts, "stemmer", Val(stemmer), FALSE)
            ELSE dict_put(config_parts, Head(filters), "true", FALSE),
            Tail(filters), stemmer)

\* _build_tokenizer_config: the rendered tokenizer, or the error raised.
_build_tokenizer_config(tokenizer, args_, named_args, filters, stemmer, alias) ==
    LET named(config_parts) ==
            IF named_args \notin {None, Some(<<>>)}
            THEN with_named_args(config_parts, Val(named_args))
            ELSE config_parts
        filtered(config_parts) ==
            IF filters \notin {None, Some(<<>>)}
            THEN with_filters(config_parts, Val(filters), stemmer)
            ELSE IF stemmer \notin {None, Some("")}
            THEN dict_put(config_parts, "stemmer", Val(stemmer), FALSE)
            ELSE config_parts
        rendered(config_parts) ==
            (IF args_ \notin {None, Some(<<>>)}
             THEN [k \in 1..Len(Val(args_)) |-> _render_sql_arg(Val(args_)[k])]
             ELSE <<>>)
            \o (IF config_parts # <<>>
                THEN <<_quote_term(
                        join([k \in 1..Len(config_parts) |->
                                <<config_parts[k].key, "=",
                                  config_parts[k].value>>], <<",">>))>>
                ELSE <<>>)
        result(args_sql) ==
            IF args_sql = <<>>
            THEN [kind |-> "ok", msg |-> <<>>, sql |-> tokenizer]
            ELSE IF ~_is_bare_tokenizer_name(tokenizer)
            THEN [kind |-> "ValueError",
                  msg |-> <<"Tokenizer with args/named_args/alias must use a ",
                            "bare tokenizer name",
                            " (e.g. 'ngram'), not a pre-rendered function string.">>,
                  sql |-> <<>>]
            ELSE [kind |-> "ok", msg |-> <<>>,
                  sql |-> tokenizer \o <<"(">> \o join(args_sql, <<",">>)
                            \o <<")">>]
    IN  result(rendered(filtered(named(
            IF alias # None THEN <<[key |-> "alias", value |-> Val(alias)]>>
            ELSE <<>>))))

\* BM25Index.__init__
BM25Index(fields, key_field, name) ==
    [kind |-> "BM25Index", fields_config |-> fields, key_field |-> key_field,
     name |-> name]

\* schema_editor.quote_name
quote_name(name) == <<"\"", name, "\"">>

\* A list of expressions, and an error raised in place of one.
Expressions(list) == [kind |-> "ok", msg |-> <<>>, expressions |-> list]

NoExpressions(kind, msg) == [kind |-> kind, msg |-> msg, expressions |-> <<>>]

\* (faulty variant) the expressions of the later fields come first.
extend_reversed(this, rest) ==
    IF this.kind # "ok" THEN this
    ELSE IF rest.kind # "ok" THEN rest
    ELSE Expressions(rest.expressions \o this.expressions)

\* expressions.extend(...) in a loop: the first error raised ends the loop.
extend(this, rest) ==
    IF this.kind # "ok" THEN this
    ELSE IF rest.kind # "ok" THEN rest
    ELSE Expressions(this.expressions \o rest.expressions)

\* BM25Index._extract_named_args, for named_args and options that are dicts.
_extract_named_args(config, field_name) ==
    IF config.named_args # None /\ config.options # None
    THEN [kind |-> "ValueError",
          msg |-> <<"Field ", "'" \o field_name \o "'",
                    " cannot specify both 'named_args' and 'options'.",
                    " Use only 'named_args'.">>,
          named_args |-> None, legacy_options |-> None]
    ELSE [kind |-> "ok", msg |-> <<>>,
          named_args |-> IF config.named_args # None THEN config.named_args
                         ELSE config.options,
          legacy_options |-> config.options]

\* The steps the three builders share once a tokenizer is known to be set:
\* _extract_named_args, _build_tokenizer_config, f"({target}::pdb.{...})".
tokenizer_expression(target, config, field_name, alias) ==
    LET rendered(tokenizer_sql) ==
            IF tokenizer_sql.kind # "ok"
            THEN NoExpressions(tokenizer_sql.kind, tokenizer_sql.msg)
            ELSE Expressions(<< <<"(">> \o target \o <<"::pdb.">>
                                    \o tokenizer_sql.sql \o <<")">> >>)
        built(extracted) ==
            IF extracted.kind # "ok"
            THEN NoExpressions(extracted.kind, extracted.msg)
            ELSE rendered(_build_tokenizer_config(
                            Val(config.tokenizer), config.args,
                            extracted.named_args, config.filters,
                            config.stemmer, alias))
    IN  built(_extract_named_args(config, field_name))

RECURSIVE multi_tokenizer_entries(_, _, _, _)
\* The loop of _build_multi_tokenizer_expressions, from entry idx on.
multi_tokenizer_entries(column, field_name, tokenizers, idx) ==
    LET entry(config, position) ==
            IF DOMAIN config # {"dict"}
            THEN NoExpressions("ValueError",
                    <<"Field ", "'" \o field_name \o "'",
                      " tokenizer entry at position ", position,
                      " must be a dictionary.">>)
            ELSE IF config.dict.tokenizer = None
            THEN NoExpressions("ValueError",
                    <<"Field ", "'" \o field_name \o "'",
                      " tokenizer entry at position ", position,
                      " requires 'tokenizer'.">>)
            ELSE tokenizer_expression(
                    column, config.dict,
                    field_name \o "[" \o position \o "]", config.dict.alias)
    IN  IF idx > Len(tokenizers) THEN Expressions(<<>>)
        ELSE extend(entry(tokenizers[idx], ToString(idx - 1)),
                    multi_tokenizer_entries(column, field_name, tokenizers,
                                            idx + 1))

\* (faulty variant) an empty list is let through.
tokenizers_is_list(tokenizers) == DOMAIN tokenizers = {"list"}

tokenizers_is_non_empty_list(tokenizers) ==
    DOMAIN tokenizers = {"list"} /\ tokenizers.list # <<>>

\* BM25Index._build_multi_tokenizer_expressions
_build_multi_tokenizer_expressions(column, field_name, tokenizers) ==
    IF ~tokenizers_is_non_empty_list(tokenizers)
    THEN NoExpressions("ValueError",
            <<"Field ", "'" \o field_name \o "'",
              " must define 'tokenizers' as a ", "non-empty list", ".">>)
    ELSE multi_tokenizer_entries(column, field_name, tokenizers.list, 1)

RECURSIVE _build_json_key_expressions(_, _, _)
\* BM25Index._build_json_key_expressions
_build_json_key_expressions(column, field_name, json_keys) ==
    LET entry(key, config) ==
            IF config.tokenizer = None
            THEN NoExpressions("ValueError",
                    <<"JSON key ", "'" \o key \o "'", " in field ",
                      "'" \o field_name \o "'", " ",
                      "requires an explicit tokenizer",
                      " (e.g. 'unicode_words', 'simple', 'literal').">>)
            ELSE tokenizer_expression(
                    <<"(">> \o column \o <<"->>">> \o _quote_term(<<key>>)
                        \o <<")">>,
                    config, field_name \o "." \o key,
                    IF config.alias \in {None, Some("")}
                    THEN Some(field_name \o "_" \o key) ELSE config.alias)
    IN  IF json_keys = <<>> THEN Expressions(<<>>)
        ELSE extend(entry(Head(json_keys).key, Head(json_keys).value),
                    _build_json_key_expressions(column, field_name,
                                                Tail(json_keys)))

\* (faulty variant) a stemmer on its own is not taken for a configuration.
has_tokenizer_configuration_but_stemmer(config, extracted) ==
    \/ config.tokenizer # None
    \/ config.filters # None
    \/ config.args # None
    \/ extracted.named_args # None
    \/ extracted.legacy_options # None
    \/ config.alias # None

\* tokenizer is not None or filters is not None or ... or alias is not None
has_tokenizer_configuration(config, extracted) ==
    \/ config.tokenizer # None
    \/ config.filters # None
    \/ config.stemmer # None
    \/ config.args # None
    \/ extracted.named_args # None
    \/ extracted.legacy_options # None
    \/ config.alias # None

\* The body of the loop of _build_index_expressions, for one field.
field_expressions(field_name, config) ==
    LET column == quote_name(field_name)
        field(extracted, configured) ==
            IF extracted.kind # "ok"
            THEN NoExpressions(extracted.kind, extracted.msg)
            ELSE IF config.tokenizers # None
            THEN IF configured
                 THEN NoExpressions("ValueError",
                        <<"Field ", "'" \o field_name \o "'", " ",
                          "cannot mix 'tokenizers'",
                          " with 'tokenizer', 'args', 'named_args', 'options', ",
                          "'filters', 'stemmer', or 'alias'.">>)
                 ELSE _build_multi_tokenizer_expressions(column, field_name,
                                                         Val(config.tokenizers))
            ELSE IF configured
            THEN IF config.tokenizer = None
                 THEN NoExpressions("ValueError",
                        <<"Field ", "'" \o field_name \o "'",
                          " specifies tokenizer configuration but ",
                          "no tokenizer",
                          ". Please set an explicit tokenizer (e.g. ",
                          "'unicode_words', 'simple', 'literal').">>)
                 ELSE tokenizer_expression(column, config, field_name,
                                           config.alias)
            ELSE Expressions(<<column>>)
        checked(extracted) ==
            field(extracted, has_tokenizer_configuration(config, extracted))
    IN  IF config.json_keys \notin {None, Some(<<>>)}
        THEN _build_json_key_expressions(column, field_name,
                                         Val(config.json_keys))
        ELSE checked(_extract_named_args(config, field_name))

RECURSIVE _build_index_expressions(_)
\* BM25Index._build_index_expressions
_build_index_expressions(fields_config) ==
    IF fields_config = <<>> THEN Expressions(<<>>)
    ELSE extend(field_expressions(Head(fields_config).key,
                                  Head(fields_config).value),
                _build_index_expressions(Tail(fields_config)))

\* BM25Index.create_sql: the text of the Statement, or the error raised.
create_sql(self, db_table) ==
    LET statement(built) ==
            IF built.kind # "ok"
            THEN [kind |-> built.kind, msg |-> built.msg, sql |-> <<>>,
                  params |-> <<>>]
            ELSE [kind |-> "ok", msg |-> <<>>,
                  sql |-> <<"CREATE INDEX ">> \o quote_name(self.name)
                            \o <<" ON ">> \o quote_name(db_table)
                            \o <<"\nUSING bm25 (\n    ">>
                            \o join(built.expressions, <<",\n    ">>)
                            \o <<"\n)\nWITH (key_field=">>
                            \o _quote_term(<<self.key_field>>) \o <<")">>,
                  params |-> <<>>]
    IN  statement(_build_index_expressions(self.fields_config))

\* The configurations of a field: the keys a config may hold, each absent by
\* default.
NoConfig ==
    [json_keys |-> None, tokenizers |-> None, tokenizer |-> None, args |-> None,
     named_args |-> None, options |-> None, filters |-> None, stemmer |-> None,
     alias |-> None, fast |-> None]

Simple == <<"s", "i", "m", "p", "l", "e">>

PreRendered == <<"n", "g", "r", "a", "m", "(", "3", ",", "8", ")">>

\* The configurations a field is given: a tokenizer (bare, pre-rendered or
\* none) with one other key at most, and the combinations of keys that the
\* builders treat on their own (filters with a stemmer, named_args that
\* hold the key of the alias, of a filter or of the stemmer); a tokenizers key (lists of up to MaxList
\* entries, and what is not a list of configurations), alone and with each
\* of the former; a json_keys key (dicts of up to MaxList keys); a fast key
\* (a bool, or a value that is not one) with each tokenizer.
ConfigIn ==
    LET one_key ==
            {NoConfig,
             [NoConfig EXCEPT !.args = Some(<<>>)],
             [NoConfig EXCEPT !.args = Some(<<PyInt(3), PyStr("x")>>)],
             [NoConfig EXCEPT !.named_args = Some(<<>>)],
             [NoConfig EXCEPT !.named_args =
                Some(<<[key |-> "positions", value |-> PyBool(TRUE)]>>)],
             [NoConfig EXCEPT !.options =
                Some(<<[key |-> "remove_long", value |-> PyInt(20)]>>)],
             [NoConfig EXCEPT !.filters = Some(<<>>)],
             [NoConfig EXCEPT !.filters = Some(<<"lowercase">>)],
             [NoConfig EXCEPT !.stemmer = Some("english")],
             [NoConfig EXCEPT !.alias = Some("al")],
             [NoConfig EXCEPT !.fast = Some(PyBool(TRUE))],
             [NoConfig EXCEPT !.fast = Some(PyBool(FALSE))],
             [NoConfig EXCEPT !.fast = Some(PyStr("yes"))]}
        tokenizer_configs ==
            {[c EXCEPT !.tokenizer = t] :
                c \in one_key, t \in {None, Some(Simple), Some(PreRendered)}}
            \cup {[NoConfig EXCEPT !.tokenizer = Some(Simple),
                                   !.filters = Some(<<"stemmer", "lowercase">>),
                                   !.stemmer = Some("english")],
                  [NoConfig EXCEPT !.tokenizer = Some(Simple),
                                   !.named_args = Some(<<[key |-> "alias",
                                                          value |-> PyStr("x")]>>),
                                   !.alias = Some("al")],
                  [NoConfig EXCEPT !.tokenizer = Some(Simple),
                                   !.named_args = Some(<<[key |-> "k",
                                                          value |-> PyNone]>>),
                                   !.options = Some(<<>>)],
                  [NoConfig EXCEPT !.tokenizer = Some(Simple),
                                   !.filters = Some(<<"lowercase">>),
                                   !.stemmer = Some("english")],
                  [NoConfig EXCEPT !.tokenizer = Some(Simple),
                                   !.alias = Some("al"),
                                   !.named_args = Some(<<[key |-> "lowercase",
                                                          value |-> PyBool(FALSE)]>>),
                                   !.filters = Some(<<"lowercase", "stemmer">>),
                                   !.stemmer = Some("english")],
                  [NoConfig EXCEPT !.tokenizer = Some(Simple),
                                   !.named_args = Some(<<[key |-> "stemmer",
                                                          value |-> PyStr("x")]>>),
                                   !.filters = Some(<<"stemmer">>),
                                   !.stemmer = Some("english")]}
        entries ==
            {NoConfig, [NoConfig EXCEPT !.tokenizer = Some(Simple)],
             [NoConfig EXCEPT !.tokenizer = Some(PreRendered)],
             [NoConfig EXCEPT !.tokenizer = Some(Simple), !.alias = Some("al")]}
        lists == UNION {[1..n -> entries] : n \in 0..MaxList}
        tokenizers ==
            {[str |-> "not-a-list"], [list |-> <<[int |-> 123]>>]}
            \cup {[list |-> [k \in 1..Len(l) |-> [dict |-> l[k]]]] : l \in lists}
        json_keys ==
            {[k \in 1..Len(l) |-> [key |-> "k" \o ToString(k), value |-> l[k]]] :
                l \in lists}
    IN  tokenizer_configs
        \cup {[NoConfig EXCEPT !.tokenizers = Some(t)] : t \in tokenizers}
        \cup {[c EXCEPT !.tokenizers =
                    Some([list |-> <<[dict |-> [NoConfig EXCEPT
                                        !.tokenizer = Some(Simple)]]>>])] :
                c \in tokenizer_configs}
        \cup {[c EXCEPT !.json_keys = Some(j)] :
                c \in {NoConfig,
                       [NoConfig EXCEPT !.fast = Some(PyBool(TRUE))],
                       [NoConfig EXCEPT !.filters = Some(<<"lowercase">>)],
                       [NoConfig EXCEPT !.tokenizers = Some([list |-> <<>>])]},
                j \in json_keys}

\* The configurations the other fields of an index are given.
FollowIn ==
    {NoConfig, [NoConfig EXCEPT !.tokenizer = Some(Simple)],
     [NoConfig EXCEPT !.stemmer = Some("english")],
     [NoConfig EXCEPT !.fast = Some(PyBool(TRUE))]}

\* A field is declared: fields[name] = config.
AddField(config) ==
    /\ expr = None
    /\ out.kind = "ok"
    /\ Len(args) < MaxFields
    /\ config \in FollowIn \/ \A k \in 1..Len(args) : args[k].value \in FollowIn
    /\ call' = [op |-> "fields", given |-> [config |-> config]]
    /\ args' = Append(args, [key |-> "f" \o ToString(Len(args) + 1),
                             value |-> config])
    /\ UNCHANGED <<expr, out>>

\* BM25Index(fields=..., key_field=..., name=...) over the fields declared.
NewBM25Index ==
    /\ expr = None
    /\ out.kind = "ok"
    /\ args # <<>>
    /\ call' = [op |-> "BM25Index", given |-> [fields |-> args]]
    /\ expr' = Some(BM25Index(args, args[1].key, "idx1"))
    /\ UNCHANGED <<args, out>>

CreateSql ==
    /\ expr # None
    /\ call.op = "BM25Index"
    /\ call' = [op |-> "create_sql", given |-> [db_table |-> "t"]]
    /\ out' = create_sql(Val(expr), "t")
    /\ UNCHANGED <<args, expr>>

NextIndex ==
    \/ \E config \in ConfigIn : AddField(config)
    \/ NewBM25Index
    \/ CreateSql
    \/ Restart

SpecIndex == Init /\ [][NextIndex]_vars

----------------------------------------------------------------------------
(* queryset.py: ParadeDBQuerySet.facets                                     *)
(*                                                                         *)
(* A WhereNode is [children |-> <<...>>]; a lookup is [lookup, lhs, rhs]   *)
(* with the class of the lookup and the kinds of its two sides.  A row is  *)
(* a sequence of [key, value] pairs: the attributes of a model instance,   *)
(* the items of a values() dict, or the columns of a values_list() tuple   *)
(* in order.  The queries sent to the database are logged in out.sql.      *)

\* The lookups a filter() adds to the WHERE clause.
LookupIn ==
    {[lookup |-> "ParadeDBExact", lhs |-> "Col", rhs |-> "Value"],
     [lookup |-> "ParadeDBExact", lhs |-> "Col", rhs |-> "ParadeDB"],
     [lookup |-> "ParadeDBExact", lhs |-> "MoreLikeThis", rhs |-> "Value"],
     [lookup |-> "GreaterThan", lhs |-> "Col", rhs |-> "Value"],
     [lookup |-> "GreaterThan", lhs |-> "Col", rhs |-> "ParadeDB"]}

RECURSIVE contains_paradedb_operator_or_node(_, _)
\* (faulty variant) a nested WhereNode counts without a look at its children.
contains_paradedb_operator_or_node(where, i) ==
    IF i > Len(where.children) THEN FALSE
    ELSE IF DOMAIN where.children[i] = {"children"} THEN TRUE
    ELSE IF where.children[i].lhs = "MoreLikeThis" THEN TRUE
    ELSE IF where.children[i].rhs = "ParadeDB" THEN TRUE
    ELSE contains_paradedb_operator_or_node(where, i + 1)

RECURSIVE _contains_paradedb_operator(_, _)
\* for child in where.children, from the i-th child on.
_contains_paradedb_operator(where, i) ==
    IF i > Len(where.children) THEN FALSE
    ELSE IF DOMAIN where.children[i] = {"children"}
    THEN IF _contains_paradedb_operator(where.children[i], 1) THEN TRUE
         ELSE _contains_paradedb_operator(where, i + 1)
    ELSE IF /\ where.children[i].lookup = "ParadeDBExact"
            /\ where.children[i].rhs = "ParadeDB"
    THEN TRUE
    ELSE IF where.children[i].lhs = "MoreLikeThis" THEN TRUE
    ELSE IF where.children[i].rhs = "ParadeDB" THEN TRUE
    ELSE _contains_paradedb_operator(where, i + 1)

_require_paradedb_operator(self) ==
    IF ~_contains_paradedb_operator(self.where, 1)
    THEN Raise("ValueError",
               "facets() requires a ParadeDB operator in the WHERE clause. "
                \o "Add a ParadeDB search filter before calling facets().")
    ELSE Ok

_require_order_by_and_limit(self) ==
    LET has_ordering ==
            IF self.order_by # <<>> \/ self.extra_order_by # <<>> THEN TRUE
            ELSE self.default_ordering /\ self.ordering # <<>>
    IN  IF ~has_ordering
        THEN Raise("ValueError",
                   "facets(include_rows=True) requires order_by() and a LIMIT. "
                    \o "Apply order_by(...) and slice the queryset before calling facets().")
        ELSE IF ~(self.low_mark # 0 \/ self.high_mark # None) \/ self.high_mark = None
        THEN Raise("ValueError",
                   "facets(include_rows=True) requires a LIMIT. "
                    \o "Slice the queryset (e.g. [:10]) before calling facets().")
        ELSE Ok

\* json.dumps({"terms": terms}, separators=(",", ":"), sort_keys=True)
terms_spec(field, size, order) ==
    <<"{", "\"terms\"", ":", "{", "\"field\"", ":", "\"", field, "\"">>
        \o (IF order = None THEN <<>>
            ELSE <<",", "\"order\"", ":", "{",
                   IF Val(order) \in {"count", "-count"}
                   THEN "\"_count\"" ELSE "\"_key\"",
                   ":",
                   IF Val(order) \in {"count", "key"}
                   THEN "\"asc\"" ELSE "\"desc\"", "}">>)
        \o (IF size = None THEN <<>>
            ELSE <<",", "\"size\"", ":", ToString(Val(size))>>)
        \o <<"}", "}">>

\* {alias: json_spec}, a sequence of [key, value] pairs in insertion order,
\* or the exception raised.
_build_agg_specs(fields, size, order, agg) ==
    IF agg # None
    THEN [kind |-> "ok", msg |-> "",
          specs |-> <<[key |-> "_paradedb_facets", value |-> <<Val(agg)>>]>>]
    ELSE IF fields = <<>>
    THEN [kind |-> "ValueError", msg |-> "facets() requires at least one field.",
          specs |-> <<>>]
    ELSE IF Cardinality({fields[k] : k \in 1..Len(fields)}) # Len(fields)
    THEN [kind |-> "ValueError", msg |-> "Facet field names must be unique.",
          specs |-> <<>>]
    ELSE IF order # None /\ Val(order) \notin {"count", "-count", "key", "-key"}
    THEN [kind |-> "ValueError",
          msg |-> "Facet order must be count, -count, key, or -key.",
          specs |-> <<>>]
    ELSE IF size # None /\ Val(size) < 0
    THEN [kind |-> "ValueError", msg |-> "Facet size must be zero or positive.",
          specs |-> <<>>]
    ELSE [kind |-> "ok", msg |-> "",
          specs |-> [k \in 1..Len(fields) |->
                        [key |-> IF Len(fields) > 1
                                 THEN fields[k] \o "_terms"
                                 ELSE "_paradedb_facets",
                         value |-> terms_spec(fields[k], size, order)]]]

\* The aggregation result the database computes for an alias.
Aggregated(alias) == PyDict(<<alias>>)

\* list(queryset) of the annotated queryset: the rows of the table inside
\* the slice, each with one more attribute, item or column per alias.
annotated_rows(self, table, aliases) ==
    LET last == IF self.high_mark = None \/ Val(self.high_mark) > Len(table)
                THEN Len(table) ELSE Val(self.high_mark)
    IN  [k \in 1..(IF last > self.low_mark THEN last - self.low_mark ELSE 0) |->
            table[self.low_mark + k]
                \o [j \in 1..Len(aliases) |->
                        [key |-> aliases[j], value |-> Aggregated(aliases[j])]]]

\* (faulty variant) the aliases are taken off the first row only.
strip_first_row(rows, aliases, iterable) ==
    [k \in 1..Len(rows) |->
        IF k > 1 THEN rows[k]
        ELSE IF iterable = "values_list"
        THEN SubSeq(rows[k], 1, Len(rows[k]) - Len(aliases))
        ELSE SelectSeq(rows[k],
                       LAMBDA item : \A j \in 1..Len(aliases) : item.key # aliases[j])]

\* for row in rows: row.pop(alias, None) / rows[index] = row[:-len(aliases)] /
\* delattr(row, alias)
strip(rows, aliases, iterable) ==
    [k \in 1..Len(rows) |->
        IF iterable = "values_list"
        THEN IF Len(rows[k]) >= Len(aliases)
             THEN SubSeq(rows[k], 1, Len(rows[k]) - Len(aliases))
             ELSE rows[k]
        ELSE SelectSeq(rows[k],
                       LAMBDA item : \A j \in 1..Len(aliases) : item.key # aliases[j])]

\* The facets read from the first row: the value itself for one alias, a
\* dict of the values for several.
_extract_facets_multi(rows, aliases, iterable) ==
    LET first == rows[1]
        named(alias) ==
            LET found == SelectSeq(first, LAMBDA item : item.key = alias)
            IN  IF found = <<>> THEN PyDict(<<>>) ELSE found[1].value
        positional(j) ==
            first[Len(first) - Len(aliases) + j].value
        value(j) ==
            IF iterable = "values_list" THEN positional(j) ELSE named(aliases[j])
    IN  IF Len(aliases) = 1 THEN value(1)
        ELSE IF iterable = "values_list" /\ Len(first) < Len(aliases)
        THEN PyDict(<<>>)
        ELSE [dict |-> [j \in 1..Len(aliases) |->
                            [key |-> aliases[j], value |-> value(j)]]]

\* queryset.aggregate(**aggregations)
_facets_only_multi(aliases) ==
    IF Len(aliases) = 1 THEN Aggregated(aliases[1])
    ELSE [dict |-> [j \in 1..Len(aliases) |->
                        [key |-> aliases[j], value |-> Aggregated(aliases[j])]]]

facets(self, table, fields, size, order, agg, include_rows, exact) ==
    LET raised(e) ==
            [kind |-> e.kind, msg |-> e.msg, sql |-> <<>>, params |-> <<>>,
             rows |-> <<>>, facets |-> PyDict(<<>>)]
        returned(queries, rows, result) ==
            [kind |-> "ok", msg |-> "", sql |-> queries, params |-> <<>>,
             rows |-> rows, facets |-> result]
        with_rows(rows, aliases) ==
            IF rows = <<>>
            THEN returned(<<"rows", "aggregate">>, rows, _facets_only_multi(aliases))
            ELSE returned(<<"rows">>, strip(rows, aliases, self.iterable),
                          _extract_facets_multi(rows, aliases, self.iterable))
        run(aliases) ==
            IF include_rows
            THEN with_rows(annotated_rows(self, table, aliases), aliases)
            ELSE returned(<<"aggregate">>, <<>>, _facets_only_multi(aliases))
        built(agg_specs) ==
            IF agg_specs.kind # "ok" THEN raised(agg_specs)
            ELSE run([k \in 1..Len(agg_specs.specs) |-> agg_specs.specs[k].key])
    IN  IF fields = <<>> /\ agg = None
        THEN raised(Raise("ValueError", "facets() requires fields or agg."))
        ELSE IF _require_paradedb_operator(self).kind # "ok"
        THEN raised(_require_paradedb_operator(self))
        ELSE IF include_rows /\ _require_order_by_and_limit(self).kind # "ok"
        THEN raised(_require_order_by_and_limit(self))
        ELSE IF ~include_rows /\ exact = Some(FALSE)
        THEN raised(Raise("ValueError",
                          "facets(exact=False) requires include_rows=True so the "
                           \o "aggregation runs as a window function."))
        ELSE built(_build_agg_specs(fields, size, order, agg))

\* Model.objects.all() (or .values() / .values_list()) over a table of n
\* rows that pass the filters; ordering is the model's Meta.ordering.
QuerySet(iterable, ordering) ==
    [kind |-> "QuerySet", where |-> [children |-> <<>>], order_by |-> <<>>,
     extra_order_by |-> <<>>, default_ordering |-> TRUE, ordering |-> ordering,
     low_mark |-> 0, high_mark |-> None, iterable |-> iterable]

NewQuerySet(iterable, n, ordering) ==
    /\ expr = None
    /\ out.kind = "ok"
    /\ call' = [op |-> "QuerySet",
                given |-> [iterable |-> iterable, ordering |-> ordering]]
    /\ args' = [k \in 1..n |-> <<[key |-> "id", value |-> PyInt(k)]>>]
    /\ expr' = Some(QuerySet(iterable, ordering))
    /\ UNCHANGED out

\* The queryset is a plain one: model instances, one row, no Meta.ordering.
PlainQuerySet ==
    /\ expr # None
    /\ Val(expr).iterable = "model"
    /\ Val(expr).ordering = <<>>
    /\ Len(args) = 1

\* queryset.filter(...): one more lookup in the root WhereNode.  At most one
\* lookup of the clause holds a ParadeDB object or a MoreLikeThis.
Filter(child) ==
    /\ expr # None
    /\ call.op \in {"QuerySet", "filter"}
    /\ Len(Val(expr).where.children) < MaxWhere
    /\ \/ child = [lookup |-> "ParadeDBExact", lhs |-> "Col", rhs |-> "ParadeDB"]
       \/ PlainQuerySet
    /\ \/ child.lhs = "Col" /\ child.rhs = "Value"
       \/ ~_contains_paradedb_operator(Val(expr).where, 1)
    /\ call' = [op |-> "filter", given |-> [child |-> child]]
    /\ expr' = Some([Val(expr) EXCEPT !.where.children = Append(@, child)])
    /\ UNCHANGED <<args, out>>

RECURSIVE depth(_)
depth(where) ==
    IF \E k \in 1..Len(where.children) : DOMAIN where.children[k] = {"children"}
    THEN 1 + depth(where.children[1])
    ELSE 1

\* queryset.filter(Q(...) | Q(...)), exclude(...): the clause so far becomes
\* a child WhereNode of a new root.
Nest ==
    /\ PlainQuerySet
    /\ call.op = "filter"
    /\ depth(Val(expr).where) < MaxWhere
    /\ call' = [op |-> "filter", given |-> [child |-> Val(expr).where]]
    /\ expr' = Some([Val(expr) EXCEPT !.where = [children |-> <<@>>]])
    /\ UNCHANGED <<args, out>>

\* queryset.order_by("id")
OrderBy ==
    /\ expr # None
    /\ call.op \in {"QuerySet", "filter"}
    /\ call' = [op |-> "order_by", given |-> [field |-> "id"]]
    /\ expr' = Some([Val(expr) EXCEPT !.order_by = <<"id">>])
    /\ UNCHANGED <<args, out>>

\* queryset[low:high], queryset[low:], queryset[:high]
Slice(low, high) ==
    /\ expr # None
    /\ call.op \in {"QuerySet", "filter", "order_by"}
    /\ low # 0 \/ high # None
    /\ call' = [op |-> "slice", given |-> [low |-> low, high |-> high]]
    /\ expr' = Some([Val(expr) EXCEPT !.low_mark = low, !.high_mark = high])
    /\ UNCHANGED <<args, out>>

\* The arguments facets() is called with: the defaults with one field, and
\* each argument changed in turn.
FacetsIn ==
    LET default == [fields |-> <<"a">>, size |-> Some(10), order |-> Some("-count"),
                    agg |-> None, include_rows |-> TRUE, exact |-> None]
    IN  {default,
         [default EXCEPT !.fields = <<>>],
         [default EXCEPT !.fields = <<>>, !.agg = Some("{\"value_count\":{}}")],
         [default EXCEPT !.fields = <<"a", "b">>],
         [default EXCEPT !.fields = <<"a", "a">>],
         [default EXCEPT !.size = None],
         [default EXCEPT !.size = Some(-1)],
         [default EXCEPT !.order = None],
         [default EXCEPT !.order = Some("key")],
         [default EXCEPT !.order = Some("bad")],
         [default EXCEPT !.exact = Some(FALSE)],
         [default EXCEPT !.include_rows = FALSE],
         [default EXCEPT !.include_rows = FALSE, !.fields = <<"a", "b">>],
         [default EXCEPT !.include_rows = FALSE, !.exact = Some(FALSE)],
         [default EXCEPT !.include_rows = FALSE, !.order = Some("bad")]}

Facets(given) ==
    /\ expr # None
    /\ call.op \in {"QuerySet", "filter", "order_by", "slice"}
    /\ call' = [op |-> "facets", given |-> given]
    /\ out' = facets(Val(expr), args, given.fields, given.size, given.order,
                     given.agg, given.include_rows, given.exact)
    /\ UNCHANGED <<args, expr>>

NextFacets ==
    \/ \E iterable \in {"model", "values", "values_list"}, n \in 0..MaxRows,
          ordering \in {<<>>, <<"id">>} :
            NewQuerySet(iterable, n, ordering)
    \/ \E child \in LookupIn : Filter(child)
    \/ Nest
    \/ OrderBy
    \/ \E low \in 0..1, high \in {None, Some(MaxRows)} : Slice(low, high)
    \/ \E given \in FacetsIn : Facets(given)
    \/ Restart

SpecFacets == Init /\ [][NextFacets]_vars

----------------------------------------------------------------------------
(* search.py: the exact lookup override                                     *)

\* process_lhs: the SQL and the parameters of the left-hand side, a column
\* or an expression with a parameter of its own.
LhsIn ==
    {[sql |-> Lhs, params |-> <<>>],
     [sql |-> <<"COALESCE(", "L", ", ", "%s", ")">>, params |-> <<PyStr("x")>>]}

\* super().as_sql of Exact for a plain right-hand side: <lhs> = %s.
Exact_as_sql(lhs, rhs) ==
    [kind |-> "ok", msg |-> "", sql |-> lhs.sql \o <<" = ", "%s">>,
     params |-> lhs.params \o <<rhs>>]

\* (faulty variant) the parameters of the left-hand side are left out.
ParadeDBExact_as_sql_rhs_params(lhs, rhs) ==
    IF DOMAIN rhs = {"ParadeDB"}
    THEN as_sql(rhs.ParadeDB, lhs.sql)
    ELSE [Exact_as_sql(lhs, rhs) EXCEPT !.params = <<rhs>>]

\* ParadeDBExact.as_sql; rhs is [ParadeDB |-> the object] or a plain value.
ParadeDBExact_as_sql(lhs, rhs) ==
    IF DOMAIN rhs = {"ParadeDB"}
    THEN [as_sql(rhs.ParadeDB, lhs.sql) EXCEPT !.params = lhs.params \o @]
    ELSE Exact_as_sql(lhs, rhs)

\* compiler.compile(lookup) of column = <ParadeDB object> (no value given) or
\* column = <value>.
ExactAsSql(lhs, value) ==
    /\ value = None => expr # None
    /\ value # None => expr = None /\ args = <<>> /\ out.kind = "ok"
    /\ call' = [op |-> "exact", given |-> [lhs |-> lhs, value |-> value]]
    /\ out' = ParadeDBExact_as_sql(lhs, IF value = None
                                        THEN [ParadeDB |-> Val(expr)]
                                        ELSE Val(value))
    /\ UNCHANGED <<args, expr>>

NextExact ==
    \/ \E text \in {<<"a">>} : NewStr(MaxTerms, text)
    \/ \E term \in StrTexts : NewPQ(MaxTerms, term)
    \/ \E operator \in {"OR", "AND"} : Combine(MaxTerms, operator)
    \/ \E i \in {i \in ParadeDBMixIn : i.tokenizer = None /\ i.const = None} :
            NewParadeDB(i)
    \/ Restart
    \/ \E lhs \in LhsIn, value \in {None, Some(PyStr("v")), Some(PyInt(1))} :
            ExactAsSql(lhs, value)

SpecExact == Init /\ [][NextExact]_vars

----------------------------------------------------------------------------
(* search.py: several expressions alive at once, compiled in any order.    *)
(* Each entry of args holds an expression (self), the value it was built   *)
(* with (created), the outcome of its first compilation and the number of  *)
(* its compilations.                                                       *)

\* The term tuples the expressions are built from: plain strings, a PQ, a
\* Phrase, alone and in pairs (the mixed pairs raise when compiled).
PoolIn ==
    LET terms == {Str(<<"a">>), PQ_from_terms(<<<<"a">>, <<"b">>>>, "OR"),
                  Phrase(<<"a">>, None, None, None, None)}
    IN  {<<t>> : t \in terms} \cup {<<t, u>> : t \in terms, u \in terms}

\* (faulty variant) the resolved terms are kept on the expression.
self_after_as_sql_resolved(self) ==
    IF _resolve_terms(self).kind = "ok"
    THEN [self EXCEPT !._terms = _resolve_terms(self).terms]
    ELSE self

\* The expression after as_sql: no attribute of self is assigned.
self_after_as_sql(self) == self

\* ParadeDB(*terms), kept beside the expressions that exist already.
AddExpression(terms) ==
    /\ expr = None
    /\ Len(args) < MaxExprs
    /\ \A k \in 1..Len(args) : args[k].compiled = 0
    /\ ParadeDB_init(terms, _DEFAULT_OPERATOR, None, None, None).kind = "ok"
    /\ call' = [op |-> "ParadeDB", given |-> [terms |-> terms]]
    /\ args' = Append(args,
                      [self |-> ParadeDB(terms, _DEFAULT_OPERATOR, None, None, None),
                       created |-> ParadeDB(terms, _DEFAULT_OPERATOR, None, None,
                                            None),
                       first |-> None, compiled |-> 0])
    /\ out' = Returned(Ok)
    /\ UNCHANGED expr

\* as_sql of the k-th expression.
CompileAt(k) ==
    /\ expr = None
    /\ k \in 1..Len(args)
    /\ args[k].compiled < MaxExprs
    /\ call' = [op |-> "as_sql", given |-> [index |-> k, lhs_sql |-> Lhs]]
    /\ out' = as_sql(args[k].self, Lhs)
    /\ args' = [args EXCEPT ![k] =
                    [self |-> self_after_as_sql(@.self), created |-> @.created,
                     first |-> IF @.first = None
                               THEN Some(as_sql(@.self, Lhs)) ELSE @.first,
                     compiled |-> @.compiled + 1]]
    /\ UNCHANGED expr

\* The expressions are dropped.
Forget ==
    /\ expr = None
    /\ args # <<>>
    /\ \E k \in 1..Len(args) : args[k].compiled > 0
    /\ call' = [op |-> "none", given |-> [none |-> TRUE]]
    /\ args' = <<>>
    /\ out' = Returned(Ok)
    /\ UNCHANGED expr

NextPure ==
    \/ \E terms \in PoolIn : AddExpression(terms)
    \/ \E k \in 1..MaxExprs : CompileAt(k)
    \/ Forget

SpecPure == Init /\ [][NextPure]_vars

----------------------------------------------------------------------------
(* search.py: the terms built with values at and around the limits of      *)
(* their ranges.                                                           *)

\* boost values: none, the two limits, the values next to them, and zero.
BoostRangeIn == {None, Some(-2049), Some(-2048), Some(0), Some(2048), Some(2049)}

NextRange ==
    \/ \E i \in [text : {<<"a">>}, slop : {None, Some(-1), Some(0), Some(1)},
                  tokenizer : {None}, boost : BoostRangeIn, const : {None}] :
            NewPhrase(MaxTerms, i)
    \/ \E i \in [text : {<<"a">>}, distance : -1..3, prefix : {FALSE},
                  transposition_cost_one : {FALSE}, operator : {"None"},
                  boost : BoostRangeIn, const : {None}] :
            NewFuzzy(MaxTerms, i)
    \/ \E i \in [text : {<<"a", " ", "b">>}, distance : {-1, 0, 1},
                  ordered : {FALSE}, boost : BoostRangeIn, const : {None}] :
            NewProximity(MaxTerms, i)
    \/ \E i \in [text : {<<"a">>}, boost : BoostRangeIn, const : {None}] :
            NewTerm(MaxTerms, i)
    \/ \E i \in {i \in ParadeDBMixIn :
                    /\ i.operator = _DEFAULT_OPERATOR /\ i.tokenizer = None
                    /\ i.boost = None /\ i.const = None} : NewParadeDB(i)
    \/ Compile
    \/ Restart

SpecRange == Init /\ [][NextRange]_vars

----------------------------------------------------------------------------
(* What the claims speak of *)

Compiled == call.op = "as_sql" /\ expr # None

Self == Val(expr)

Quotes(s) == {i \in 1..Len(s) : s[i] = "'"}

QuotesBefore(s, i) == Cardinality({k \in Quotes(s) : k < i})

\* The text with every quote doubled, position by position: character i of s
\* lands after the i - 1 characters and the quotes that precede it.
Doubled(s) ==
    [j \in 1..(Len(s) + Cardinality(Quotes(s))) |->
        s[CHOOSE i \in 1..Len(s) :
            /\ i + QuotesBefore(s, i) <= j
            /\ j <= i + QuotesBefore(s, i) + (IF s[i] = "'" THEN 1 ELSE 0)]]

Literal(s) == <<"'">> \o Doubled(s) \o <<"'">>

Unquoted(s) == SelectSeq(s, LAMBDA c : c # "'")

Cast(boost, const) ==
    (IF boost # None THEN <<"::pdb.boost(", ToString(Val(boost)), ")">> ELSE <<>>)
    \o (IF const # None THEN <<"::pdb.const(", ToString(Val(const)), ")">> ELSE <<>>)

RECURSIVE Listed(_, _)
\* The first n of the parts, separated by ", ".
Listed(parts, n) ==
    IF n = 0 THEN <<>>
    ELSE IF n = 1 THEN parts[1]
    ELSE Listed(parts, n - 1) \o <<", ">> \o parts[n]

Operand(parts) ==
    IF Len(parts) = 1 THEN parts[1]
    ELSE <<"ARRAY[">> \o Listed(parts, Len(parts)) \o <<"]">>

Sql(operator, operand) == Lhs \o <<" ", operator, " ">> \o operand

Has(kinds) == \E i \in 1..Len(Self._terms) : Self._terms[i].kind \in kinds

Unmodified ==
    Self._tokenizer = None /\ Self._boost = None /\ Self._const = None

PlainOperator ==
    IF Self._operator = "OR" THEN "|||"
    ELSE IF Self._operator = "TERM" THEN "==="
    ELSE "&&&"

Raised(kind, msg) == out.kind = kind /\ out.msg = msg /\ out.sql = <<>>

----------------------------------------------------------------------------
(* C1: a non-empty tuple of plain strings without tokenizer, boost or const  *)
(* compiles to L <op> '<t>' for one term and L <op> ARRAY['<t1>', ...] for   *)
(* several, the terms in their order and each escaped on its own, where <op> *)
(* is ||| for OR, === for TERM and &&& otherwise; no parameter is returned.  *)
C1_PlainStrings ==
    (Compiled /\ AllKind(Self._terms, "str") /\ Unmodified) =>
        /\ out.kind = "ok"
        /\ out.params = <<>>
        /\ out.sql = Sql(PlainOperator,
                         Operand([i \in 1..Len(Self._terms) |->
                                     Literal(Self._terms[i].text)]))

C1_Witness ==
    /\ Compiled
    /\ Unmodified
    /\ Self._operator = "TERM"
    /\ Self._terms = <<Str(<<"i", "t", "'", "s">>), Str(<<"a">>)>>
    /\ out.sql = <<"L", " ", "===", " ", "ARRAY[", "'", "i", "t", "'", "'", "s",
                   "'", ", ", "'", "a", "'", "]">>

(* C2: quoting doubles every quote of the text and wraps the result in       *)
(* quotes; the body holds twice the quotes of the text and its other         *)
(* characters unchanged, also for a text whose quotes are already doubled.   *)
C2_QuoteDoubles ==
    call.op = "_quote_term" =>
        LET term == call.given.term
            body == SubSeq(out.sql, 2, Len(out.sql) - 1)
        IN  /\ Len(out.sql) >= 2
            /\ out.sql[1] = "'"
            /\ out.sql[Len(out.sql)] = "'"
            /\ Cardinality(Quotes(body)) = 2 * Cardinality(Quotes(term))
            /\ Unquoted(body) = Unquoted(term)
            /\ Len(body) = Len(term) + Cardinality(Quotes(term))
            /\ body = Doubled(term)

C2_Witness ==
    /\ call.op = "_quote_term"
    /\ call.given.term = <<"a", "'", "'", "a">>
    /\ out.sql = <<"'", "a", "'", "'", "'", "'", "a", "'">>

(* C3: an expression whose terms hold a PQ and at least one other term, of   *)
(* any kind and in any place, raises ValueError when compiled and gives no   *)
(* SQL.                                                                      *)
C3_PQSole ==
    (Compiled /\ Len(Self._terms) >= 2 /\ Has({"PQ"})) =>
        Raised("ValueError", MsgPQSole)

C3_Witness ==
    /\ Compiled
    /\ Len(Self._terms) = 3
    /\ Self._terms[1].kind = "PQ"
    /\ Self._terms[1].operator = "OR"
    /\ Self._terms[2].kind = "Parse"
    /\ Self._terms[3].kind = "PQ"
    /\ Raised("ValueError", MsgPQSole)

(* C4, as stated: a Phrase and a plain string in one expression raise        *)
(* TypeError when compiled, whatever the order of the terms, and the         *)
(* expression itself can be constructed.                                     *)
C4_PhraseWithString ==
    /\ (Compiled /\ Has({"Phrase"}) /\ Has({"str"})) => out.kind = "TypeError"
    /\ (/\ call.op = "ParadeDB"
        /\ call.given.operator = _DEFAULT_OPERATOR
        /\ call.given.tokenizer = None
        /\ call.given.boost = None
        /\ call.given.const = None
        /\ \E i \in 1..Len(call.given.kinds) : call.given.kinds[i] = "Phrase"
        /\ \E i \in 1..Len(call.given.kinds) : call.given.kinds[i] = "str")
            => out.kind = "ok" /\ expr # None

(* C4, amended: the same, for an expression that holds no PQ and no Parse,   *)
(* Term, Regex or All term; those are looked for first and raise ValueError. *)
C4_PhraseWithStringOnly ==
    /\ (/\ Compiled /\ Has({"Phrase"}) /\ Has({"str"})
        /\ ~Has({"PQ", "Parse", "Term", "Regex", "All"}))
            => Raised("TypeError", MsgOnlyPhrase)
    /\ (/\ Compiled /\ Has({"Phrase"}) /\ Has({"str"})
        /\ Has({"PQ", "Parse", "Term", "Regex", "All"}))
            => out.kind = "ValueError" /\ out.sql = <<>>
    /\ (/\ call.op = "ParadeDB"
        /\ call.given.operator = _DEFAULT_OPERATOR
        /\ call.given.tokenizer = None
        /\ call.given.boost = None
        /\ call.given.const = None
        /\ \E i \in 1..Len(call.given.kinds) : call.given.kinds[i] = "Phrase"
        /\ \E i \in 1..Len(call.given.kinds) : call.given.kinds[i] = "str")
            => out.kind = "ok" /\ expr # None

C4_Witness ==
    /\ Compiled
    /\ Len(Self._terms) = 2
    /\ Self._terms[1].kind = "str"
    /\ Self._terms[2].kind = "Phrase"
    /\ Raised("TypeError", MsgOnlyPhrase)

(* C5, as stated: boost and const given together (with arguments that are   *)
(* valid otherwise) raise ValueError 'mutually exclusive' whatever the kind  *)
(* of term (Phrase, Fuzzy, Proximity, Parse, Term, Regex, or a ParadeDB      *)
(* expression), and no object carries both.                                  *)
ScoringCalls ==
    {"Phrase", "Fuzzy", "Proximity", "Parse", "Term", "Regex", "ParadeDB"}

BothGiven ==
    /\ call.op \in ScoringCalls
    /\ call.given.boost # None
    /\ call.given.const # None

\* The other arguments of the call are ones the constructor accepts.
OtherwiseValid ==
    /\ call.given.boost[1] >= -2048 /\ call.given.boost[1] <= 2048
    /\ call.op = "Phrase" => (call.given.slop = None \/ call.given.slop[1] >= 0)
    /\ call.op = "Proximity" => call.given.distance >= 0
    /\ call.op = "Fuzzy" =>
        /\ call.given.distance \in 0..2
        /\ call.given.operator \in {"None", "OR", "AND", "TERM"}
    /\ call.op = "ParadeDB" =>
        /\ Len(call.given.kinds) > 0
        /\ call.given.operator \in {_DEFAULT_OPERATOR, "AND", "OR", "TERM"}

CarriesBoth(t) ==
    /\ t.kind \in {"Phrase", "Fuzzy", "Proximity", "Parse", "Term", "Regex"}
    /\ t.boost # None
    /\ t.const # None

NoObjectCarriesBoth ==
    /\ \A i \in 1..Len(args) : ~CarriesBoth(args[i])
    /\ expr # None =>
        /\ ~(Self._boost # None /\ Self._const # None)
        /\ \A i \in 1..Len(Self._terms) : ~CarriesBoth(Self._terms[i])

Element(i) ==
    Literal(Self._terms[i].text)
        \o (IF Self._tokenizer # None
            THEN <<"::pdb.">> \o Val(Self._tokenizer) ELSE <<>>)

C6_CastWrapsArray ==
    (/\ Compiled /\ AllKind(Self._terms, "str")
     /\ (Self._boost # None \/ Self._const # None)) =>
        /\ out.kind = "ok"
        /\ out.sql =
            Sql(PlainOperator,
                Operand([i \in 1..Len(Self._terms) |-> Element(i)])
                    \o Cast(Self._boost, Self._const))

(* C7: a Proximity term compiles to                                          *)
(* L @@@ pdb.proximity('w1' OP N OP 'w2' ...) over the words of its text,    *)
(* OP being ##> when ordered and ## otherwise, followed by the boost or      *)
(* const cast; a text of fewer than two words raises ValueError.             *)
RECURSIVE Words(_, _)
\* The whitespace-separated words of s; word is the one being read.
Words(s, word) ==
    IF s = <<>> THEN (IF word = <<>> THEN <<>> ELSE <<word>>)
    ELSE IF s[1] = " "
         THEN (IF word = <<>> THEN <<>> ELSE <<word>>) \o Words(Tail(s), <<>>)
    ELSE Words(Tail(s), Append(word, s[1]))

RECURSIVE Chain(_, _, _, _)
Chain(words, op, distance, n) ==
    IF n = 1 THEN Literal(words[1])
    ELSE Chain(words, op, distance, n - 1)
            \o <<" ", op, " ", ToString(distance), " ", op, " ">>
            \o Literal(words[n])

C7_ProximityCall ==
    (Compiled /\ Len(Self._terms) = 1 /\ Self._terms[1].kind = "Proximity") =>
        LET term == Self._terms[1]
            words == Words(term.text, <<>>)
            op == IF term.ordered THEN "##>" ELSE "##"
        IN  IF Len(words) < 2
            THEN out.kind = "ValueError" /\ out.sql = <<>>
            ELSE /\ out.kind = "ok"
                 /\ out.sql =
                        Sql("@@@",
                            <<"pdb.proximity(">>
                                \o Chain(words, op, term.distance, Len(words))
                                \o <<")">> \o Cast(term.boost, term.const))

(* C8: a tokenizer that is not an identifier is rejected with ValueError     *)
(* when the ParadeDB expression or the Phrase is constructed, so no object   *)
(* holds a tokenizer that is not an identifier.                              *)
IdentifierStart ==
    {"a", "b", "c", "d", "e", "f", "g", "h", "i", "j", "k", "l", "m", "n",
     "o", "p", "q", "r", "s", "t", "u", "v", "w", "x", "y", "z", "_"}

IdentifierPart ==
    IdentifierStart \cup {"0", "1", "2", "3", "4", "5", "6", "7", "8", "9"}

IsIdentifier(s) ==
    /\ Len(s) > 0
    /\ s[1] \in IdentifierStart
    /\ \A i \in 1..Len(s) : s[i] \in IdentifierPart

BadlyNamed(tokenizer) == tokenizer # None /\ ~IsIdentifier(Val(tokenizer))

C8_TokenizerIdentifier ==
    /\ (call.op \in {"ParadeDB", "Phrase"} /\ BadlyNamed(call.given.tokenizer))
            => out.kind = "ValueError"
    /\ \A i \in 1..Len(args) :
            args[i].kind = "Phrase" => ~BadlyNamed(args[i].tokenizer)
    /\ expr # None =>
        /\ ~BadlyNamed(Self._tokenizer)
        /\ \A i \in 1..Len(Self._terms) :
                Self._terms[i].kind = "Phrase"
                    => ~BadlyNamed(Self._terms[i].tokenizer)

(* C9: a ParadeDB constructed with an explicit operator (AND too) or with a  *)
(* tokenizer, boost or const raises ValueError when a term is not a plain    *)
(* string; an existing expression with such a modifier has only plain        *)
(* strings.                                                                  *)
Modifier(g) ==
    \/ g.operator # _DEFAULT_OPERATOR
    \/ g.tokenizer # None
    \/ g.boost # None
    \/ g.const # None

C9_ModifiersNeedPlainStrings ==
    /\ (/\ call.op = "ParadeDB"
        /\ Modifier(call.given)
        /\ \E i \in 1..Len(call.given.kinds) :
                call.given.kinds[i] \in {"PQ", "Phrase", "Proximity", "Fuzzy",
                                         "Parse", "Term", "Regex", "All"})
            => out.kind = "ValueError" /\ expr = None
    /\ (/\ expr # None
        /\ \/ Self._operator_provided
           \/ Self._tokenizer # None
           \/ Self._boost # None
           \/ Self._const # None)
            => \A i \in 1..Len(Self._terms) : Self._terms[i].kind = "str"

C9_Witness ==
    /\ call.op = "ParadeDB"
    /\ call.given.operator = "AND"
    /\ call.given.kinds = <<"str", "Fuzzy">>
    /\ Raised("ValueError", MsgOperatorPlain)
    /\ expr = None

(* C10: with a Parse, Term, Regex or All among the terms and no PQ, the      *)
(* expression compiles only when that term is alone, to L @@@ <the function  *)
(* call>; with two or more terms it raises and gives no SQL.                 *)
Call(term) ==
    IF term.kind = "Parse"
    THEN <<"pdb.parse(">> \o Literal(term.query)
            \o (IF term.lenient = None THEN <<>>
                ELSE <<", ", "lenient", " => ",
                       IF Val(term.lenient) THEN "true" ELSE "false">>)
            \o <<")">> \o Cast(term.boost, term.const)
    ELSE IF term.kind = "Term"
    THEN <<"pdb.term(">> \o Literal(term.text) \o <<")">>
            \o Cast(term.boost, term.const)
    ELSE IF term.kind = "Regex"
    THEN <<"pdb.regex(">> \o Literal(term.pattern) \o <<")">>
            \o Cast(term.boost, term.const)
    ELSE <<"pdb.all()">>

C10_QuerySoleTerm ==
    (Compiled /\ Has({"Parse", "Term", "Regex", "All"}) /\ ~Has({"PQ"})) =>
        IF Len(Self._terms) = 1
        THEN out.kind = "ok" /\ out.sql = Sql("@@@", Call(Self._terms[1]))
        ELSE out.kind \in {"ValueError", "TypeError"} /\ out.sql = <<>>

C10_Witness ==
    /\ Compiled
    /\ Len(Self._terms) = 1
    /\ Self._terms[1].kind = "Parse"
    /\ Self._terms[1].lenient = Some(TRUE)
    /\ out.sql = <<"L", " ", "@@@", " ", "pdb.parse(", "'", "a", "'", "'", "'",
                   ", ", "lenient", " => ", "true", ")">>

(* C11: a tuple of Fuzzy terms compiles with ||| when every operator is     *)
(* None or OR, with &&& when every one is AND, with === when every one is    *)
(* TERM; any other combination raises ValueError 'All Fuzzy terms must use   *)
(* the same operator'; Fuzzy terms with a plain string raise TypeError.      *)
FuzzyOperators == {Self._terms[i].operator : i \in 1..Len(Self._terms)}

FuzzyCall(term) ==
    Literal(term.text) \o <<"::pdb.fuzzy(", ToString(term.distance)>>
        \o (IF term.transposition_cost_one
            THEN <<", ", IF term.prefix THEN "t" ELSE "f", ", ", "t">>
            ELSE IF term.prefix THEN <<", ", "t">> ELSE <<>>)
        \o <<")">> \o Cast(term.boost, term.const)

FuzzySql(operator) ==
    /\ out.kind = "ok"
    /\ out.sql = Sql(operator, Operand([i \in 1..Len(Self._terms) |->
                                            FuzzyCall(Self._terms[i])]))

C11_FuzzyOperators ==
    (/\ Compiled
     /\ Has({"Fuzzy"})
     /\ \A i \in 1..Len(Self._terms) : Self._terms[i].kind \in {"Fuzzy", "str"})
        => IF Has({"str"}) THEN Raised("TypeError", MsgOnlyFuzzy)
           ELSE IF FuzzyOperators \subseteq {"None", "OR"} THEN FuzzySql("|||")
           ELSE IF FuzzyOperators = {"AND"} THEN FuzzySql("&&&")
           ELSE IF FuzzyOperators = {"TERM"} THEN FuzzySql("===")
           ELSE Raised("ValueError", MsgFuzzySameOperator)

C11_Witness ==
    /\ Compiled
    /\ Len(Self._terms) = 2
    /\ Self._terms[1].kind = "Fuzzy" /\ Self._terms[1].operator = "None"
    /\ Self._terms[2].kind = "Fuzzy" /\ Self._terms[2].operator = "AND"
    /\ Raised("ValueError", MsgFuzzySameOperator)

(* C12: an expression whose only term is a PQ compiles with ||| when the     *)
(* PQ's operator is OR and with &&& otherwise (AND or None); the operands    *)
(* are the PQ's terms in their order, one as a quoted literal, several as    *)
(* ARRAY[...].                                                               *)
C12_SolePQ ==
    (Compiled /\ Len(Self._terms) = 1 /\ Self._terms[1].kind = "PQ") =>
        LET pq == Self._terms[1]
        IN  /\ out.kind = "ok"
            /\ out.params = <<>>
            /\ out.sql = Sql(IF pq.operator = "OR" THEN "|||" ELSE "&&&",
                             Operand([i \in 1..Len(pq.terms) |->
                                        Literal(pq.terms[i])]))

C12_Witness ==
    /\ Compiled
    /\ Len(Self._terms) = 1
    /\ Self._terms[1].kind = "PQ"
    /\ Self._terms[1].operator = "OR"
    /\ out.sql = <<"L", " ", "|||", " ", "ARRAY[", "'", "a", "'", ", ",
                   "'", "i", "t", "'", "'", "s", "'", "]">>

(* C13: self | other and self & other give a new PQ with self's terms and    *)
(* then other's, and operator OR resp. AND; they raise ValueError when an    *)
(* operand carries the other operator and TypeError when other is not a PQ.  *)
(* Every PQ has at least one term, and exactly one when its operator is      *)
(* None.                                                                     *)
ReachablePQs ==
    {args[i] : i \in {k \in 1..Len(args) : args[k].kind = "PQ"}}
    \cup (IF expr = None THEN {}
          ELSE {Self._terms[i] :
                    i \in {k \in 1..Len(Self._terms) : Self._terms[k].kind = "PQ"}})

C13_PQCombination ==
    /\ \A pq \in ReachablePQs :
            /\ Len(pq.terms) >= 1
            /\ pq.operator \in {"None", "OR", "AND"}
            /\ pq.operator = "None" <=> Len(pq.terms) = 1
    /\ call.op = "_combine" =>
            LET g == call.given
            IN  IF g.other.kind # "PQ"
                THEN Raised("TypeError", MsgPQInstances) /\ args = <<>>
                ELSE IF \/ g.self.operator \notin {"None", g.operator}
                        \/ g.other.operator \notin {"None", g.operator}
                     THEN Raised("ValueError", MsgMixedPQ) /\ args = <<>>
                ELSE /\ out.kind = "ok"
                     /\ args # <<>>
                     /\ args[Len(args)] =
                            [kind |-> "PQ",
                             terms |-> g.self.terms \o g.other.terms,
                             operator |-> g.operator]

C13_Witness ==
    /\ call.op = "_combine"
    /\ call.given.operator = "AND"
    /\ call.given.self.operator = "None"
    /\ call.given.other.kind = "PQ"
    /\ call.given.other.operator = "OR"
    /\ Raised("ValueError", MsgMixedPQ)

(* C14: MoreLikeThis(...) returns an object only when exactly one of        *)
(* product_id, product_ids and document is given; with none or with several  *)
(* it raises ValueError 'exactly one input source', with an empty            *)
(* product_ids it raises ValueError; no MoreLikeThis object has zero or      *)
(* several input sources.                                                    *)
Sources(product_id, product_ids, document) ==
    Count(<<product_id # None, product_ids # None, document # None>>)

C14_ExactlyOneSource ==
    /\ call.op = "MoreLikeThis" =>
        LET g == call.given
            n == Sources(g.product_id, g.product_ids, g.document)
        IN  /\ n # 1 =>
                /\ Raised("ValueError",
                          "MoreLikeThis requires exactly one input source.")
                /\ expr = None
            /\ g.product_ids = Some(<<>>) => out.kind = "ValueError" /\ expr = None
            /\ out.kind = "ok" => n = 1 /\ expr # None
    /\ expr # None =>
        /\ Sources(Self.product_id, Self.product_ids, Self._document_input) = 1
        /\ Self.product_ids # Some(<<>>)

C14_Witness ==
    /\ call.op = "MoreLikeThis"
    /\ call.given.product_id # None
    /\ call.given.product_ids = None
    /\ call.given.document = Some(PyStr("{}"))
    /\ Raised("ValueError", "MoreLikeThis requires exactly one input source.")
    /\ expr = None

(* C15: a MoreLikeThis with stopwords=[] compiles to the SQL and parameters  *)
(* of the same object with stopwords=None, without any stopwords clause; a   *)
(* non-empty list gives stopwords => ARRAY[%s, ...] in each call, with one   *)
(* parameter per word.                                                       *)
CompiledMLT == call.op = "MoreLikeThis.as_sql" /\ expr # None

MltCalls == IF Self.product_ids # None THEN Len(Val(Self.product_ids)) ELSE 1

StopwordsClause(words) ==
    <<"stopwords", " => ", "ARRAY[">>
        \o Listed([k \in 1..Len(words) |-> <<"%s">>], Len(words)) \o <<"]">>

Occurrences(clause) ==
    Cardinality({k \in 1..(Len(out.sql) - Len(clause) + 1) :
                    SubSeq(out.sql, k, k + Len(clause) - 1) = clause})

StopwordParams ==
    SelectSeq(out.params, LAMBDA v : \E k \in 1..Len(Val(Self.stopwords)) :
                                        v = Val(Self.stopwords)[k])

C15_EmptyStopwords ==
    CompiledMLT =>
        /\ out.kind = "ok"
        /\ Self.stopwords = Some(<<>>) =>
                out = MoreLikeThis_as_sql([Self EXCEPT !.stopwords = None], Lhs)
        /\ Self.stopwords \in {None, Some(<<>>)} =>
                \A k \in 1..Len(out.sql) : out.sql[k] \notin {"stopwords", "ARRAY[]"}
        /\ Self.stopwords \notin {None, Some(<<>>)} =>
                /\ Occurrences(StopwordsClause(Val(Self.stopwords))) = MltCalls
                /\ Occurrences(<<"stopwords">>) = MltCalls
                /\ StopwordParams =
                        join([k \in 1..MltCalls |-> Val(Self.stopwords)], <<>>)

C15_Witness ==
    /\ CompiledMLT
    /\ Self.stopwords = Some(<<>>)
    /\ Self.product_id # None
    /\ Self.fields = None
    /\ \A k \in 1..Len(Self.numeric) : Self.numeric[k] = None
    /\ out.sql = <<"L", " @@@ ", "pdb.more_like_this(", "%s", ")">>
    /\ out.params = <<PyInt(7)>>

(* What the claims on BM25Index speak of: the fields as declared (args),    *)
(* the outcome of create_sql, and the expressions a valid field stands for.  *)
Created == call.op = "create_sql" /\ expr # None

MsgHas(part) == \E k \in 1..Len(out.msg) : out.msg[k] = part

NoStatement == out.kind = "ValueError" /\ out.sql = <<>>

Given(value) == value \notin {None, Some(<<>>)}

NoParen(tokenizer) == \A k \in 1..Len(tokenizer) : tokenizer[k] # "("

\* The config holds a tokenizer and nothing else.
TokenizerOnly(config) ==
    /\ config.tokenizer # None
    /\ config = [NoConfig EXCEPT !.tokenizer = config.tokenizer]

\* The config holds a tokenizer, perhaps an alias for a bare one, and nothing
\* else.
EntryOnly(config) ==
    /\ config.tokenizer # None
    /\ config = [NoConfig EXCEPT !.tokenizer = config.tokenizer,
                                 !.alias = config.alias]
    /\ config.alias # None => NoParen(Val(config.tokenizer))

ValidTokenizers(config) ==
    /\ config = [NoConfig EXCEPT !.tokenizers = config.tokenizers]
    /\ config.tokenizers # None
    /\ DOMAIN Val(config.tokenizers) = {"list"}
    /\ Val(config.tokenizers).list # <<>>
    /\ \A m \in 1..Len(Val(config.tokenizers).list) :
            LET entry == Val(config.tokenizers).list[m]
            IN  DOMAIN entry = {"dict"} /\ EntryOnly(entry.dict)

ValidJsonKeys(config) ==
    /\ config = [NoConfig EXCEPT !.json_keys = config.json_keys]
    /\ Given(config.json_keys)
    /\ \A m \in 1..Len(Val(config.json_keys)) :
            LET sub == Val(config.json_keys)[m].value
            IN  EntryOnly(sub) /\ NoParen(Val(sub.tokenizer))

Covered(config) ==
    \/ config = NoConfig
    \/ TokenizerOnly(config)
    \/ ValidTokenizers(config)
    \/ ValidJsonKeys(config)

Column(field) == <<"\"", field.key, "\"">>

CastOf(target, tokenizer, alias) ==
    <<"(">> \o target \o <<"::pdb.">> \o tokenizer
        \o (IF alias = None THEN <<>>
            ELSE <<"(", "'", "alias", "=", Val(alias), "'", ")">>)
        \o <<")">>

\* The expressions of a field whose config is covered.
ExpectedOf(field) ==
    LET config == field.value
    IN  IF config = NoConfig THEN <<Column(field)>>
        ELSE IF TokenizerOnly(config)
        THEN <<CastOf(Column(field), Val(config.tokenizer), None)>>
        ELSE IF config.tokenizers # None
        THEN [m \in 1..Len(Val(config.tokenizers).list) |->
                CastOf(Column(field),
                       Val(Val(config.tokenizers).list[m].dict.tokenizer),
                       Val(config.tokenizers).list[m].dict.alias)]
        ELSE [m \in 1..Len(Val(config.json_keys)) |->
                LET key == Val(config.json_keys)[m].key
                    sub == Val(config.json_keys)[m].value
                IN  CastOf(<<"(">> \o Column(field) \o <<"->>", "'", key, "'", ")">>,
                           Val(sub.tokenizer),
                           IF sub.alias = None
                           THEN Some(field.key \o "_" \o key) ELSE sub.alias)]

RECURSIVE ExpectedUpTo(_)
\* The expressions of the first n fields, in declaration order.
ExpectedUpTo(n) ==
    IF n = 0 THEN <<>> ELSE ExpectedUpTo(n - 1) \o ExpectedOf(args[n])

RECURSIVE Lines(_, _)
Lines(parts, n) ==
    IF n = 0 THEN <<>>
    ELSE IF n = 1 THEN parts[1]
    ELSE Lines(parts, n - 1) \o <<",\n    ">> \o parts[n]

Statement(expressions) ==
    <<"CREATE INDEX ", "\"", Self.name, "\"", " ON ", "\"", "t", "\"",
      "\nUSING bm25 (\n    ">>
        \o Lines(expressions, Len(expressions))
        \o <<"\n)\nWITH (key_field=", "'", Self.key_field, "'", ")">>

\* Field k is the first whose config is not a covered one.
FirstOther(k) ==
    /\ k \in 1..Len(args)
    /\ ~Covered(args[k].value)
    /\ \A j \in 1..(k - 1) : Covered(args[j].value)

OthersCovered(k) == \A j \in 1..Len(args) : j # k => Covered(args[j].value)

BothNamed(config) == config.named_args # None /\ config.options # None

(* C16: create_sql raises ValueError and gives no statement when a field     *)
(* config (without json_keys and tokenizers) sets filters, stemmer, args,    *)
(* named_args or alias and no tokenizer, with a message containing 'no       *)
(* tokenizer'; and when a json_keys sub-key config has no tokenizer, with a  *)
(* message containing 'requires an explicit tokenizer'.                      *)
NeedsTokenizer(config) ==
    /\ ~Given(config.json_keys)
    /\ config.tokenizers = None
    /\ config.tokenizer = None
    /\ \/ config.filters # None
       \/ config.stemmer # None
       \/ config.args # None
       \/ config.named_args # None
       \/ config.alias # None

KeyNeedsTokenizer(config, m) ==
    /\ Given(config.json_keys)
    /\ m \in 1..Len(Val(config.json_keys))
    /\ Val(config.json_keys)[m].value.tokenizer = None
    /\ \A j \in 1..(m - 1) :
            LET sub == Val(config.json_keys)[j].value
            IN  EntryOnly(sub) /\ NoParen(Val(sub.tokenizer))

C17_LegacyOptionsRejected ==
    (Created /\ \E k \in 1..Len(args) :
                    /\ FirstOther(k)
                    /\ ~Given(args[k].value.json_keys)
                    /\ args[k].value.options # None)
        => NoStatement /\ MsgHas("deprecated 'options'")

(* C18: a field config with a tokenizers key (and no json_keys) that also  *)
(* holds a top-level tokenizer, filters, stemmer, args, named_args or alias  *)
(* raises ValueError "cannot mix 'tokenizers'"; a tokenizers value that is   *)
(* not a non-empty list of mappings with a tokenizer key raises ValueError;  *)
(* a valid list gives one (<column>::pdb.<tokenizer config>) per entry, in   *)
(* list order.                                                               *)
MixedTokenizers(config) ==
    \/ config.tokenizer # None
    \/ config.filters # None
    \/ config.stemmer # None
    \/ config.args # None
    \/ config.named_args # None
    \/ config.alias # None

PreRenderedField(config) ==
    /\ ~Given(config.json_keys)
    /\ config.tokenizers = None
    /\ config.options = None
    /\ config.tokenizer # None
    /\ ~NoParen(Val(config.tokenizer))

Supplied(config) ==
    \/ Given(config.args)
    \/ Given(config.named_args)
    \/ Given(config.filters)
    \/ config.stemmer # None
    \/ config.alias # None

RECURSIVE ExpectedVerbatim(_, _)
\* The expressions of the first n fields when field k gives its tokenizer
\* string as it is.
ExpectedVerbatim(n, k) ==
    IF n = 0 THEN <<>>
    ELSE ExpectedVerbatim(n - 1, k)
            \o (IF n = k
                THEN <<CastOf(Column(args[n]), Val(args[n].value.tokenizer), None)>>
                ELSE ExpectedOf(args[n]))

C20_CreateIndexStatement ==
    (Created /\ \A k \in 1..Len(args) : Covered(args[k].value)) =>
        /\ out.kind = "ok"
        /\ out.params = <<>>
        /\ out.sql = Statement(ExpectedUpTo(Len(args)))

C20_Witness ==
    /\ Created
    /\ Len(args) = 2
    /\ args[1].value = [NoConfig EXCEPT !.tokenizer = Some(Simple)]
    /\ ValidJsonKeys(args[2].value)
    /\ out.sql = <<"CREATE INDEX ", "\"", "idx1", "\"", " ON ", "\"", "t", "\"",
                   "\nUSING bm25 (\n    ",
                   "(", "\"", "f1", "\"", "::pdb.", "s", "i", "m", "p", "l", "e",
                   ")", ",\n    ",
                   "(", "(", "\"", "f2", "\"", "->>", "'", "k1", "'", ")", "::pdb.",
                   "s", "i", "m", "p", "l", "e",
                   "(", "'", "alias", "=", "f2_k1", "'", ")", ")", ",\n    ",
                   "(", "(", "\"", "f2", "\"", "->>", "'", "k2", "'", ")", "::pdb.",
                   "s", "i", "m", "p", "l", "e",
                   "(", "'", "alias", "=", "al", "'", ")", ")",
                   "\n)\nWITH (key_field=", "'", "f1", "'", ")">>

\* The field's config holds a boolean fast value and no json_keys.
IsFast(field) ==
    /\ field.value.fast # None
    /\ DOMAIN Val(field.value.fast) = {"bool"}
    /\ ~Given(field.value.json_keys)

RECURSIVE FastObject(_, _)
\* "<field>":{"fast":<true|false>} for the first n of the fields, comma-joined.
FastObject(fields, n) ==
    IF n = 0 THEN <<>>
    ELSE FastObject(fields, n - 1)
            \o (IF n = 1 THEN <<>> ELSE <<",">>)
            \o <<"\"", fields[n].key, "\"", ":", "{", "\"fast\"", ":",
                 IF Val(fields[n].value.fast).bool THEN "true" ELSE "false", "}">>

\* The WITH clause of an index whose fields are all text columns.
WithClause ==
    LET fast == SelectSeq(args, IsFast)
    IN  <<"\n)\nWITH (key_field=", "'", Self.key_field, "'">>
            \o (IF fast = <<>> THEN <<>>
                ELSE <<", ", "text_fields=", "'", "{">>
                        \o FastObject(fast, Len(fast)) \o <<"}", "'">>)
            \o <<")">>

EndsWith(sql, tail) ==
    /\ Len(sql) >= Len(tail)
    /\ SubSeq(sql, Len(sql) - Len(tail) + 1, Len(sql)) = tail

(* C21: a boolean fast value in a field config adds to the WITH clause,     *)
(* after key_field, <category>_fields='{"<field>":{"fast":<true|false>}}',  *)
(* the fast fields of one category grouped in declaration order; a value    *)
(* that is not a boolean adds nothing, nor does fast beside json_keys.      *)
C21_FastFields ==
    (Created /\ out.kind = "ok") => EndsWith(out.sql, WithClause)

FacetsCalled == call.op = "facets" /\ expr # None

RECURSIVE Lookups(_)
\* The lookups of a WHERE clause, at every depth.
Lookups(where) ==
    UNION {IF DOMAIN where.children[k] = {"children"}
           THEN Lookups(where.children[k])
           ELSE {where.children[k]} : k \in 1..Len(where.children)}

NoOperator ==
    \A l \in Lookups(Self.where) : l.rhs # "ParadeDB" /\ l.lhs # "MoreLikeThis"

NoOrdering == Self.order_by = <<>> /\ Self.ordering = <<>>

NoQuery == out.kind = "ValueError" /\ out.sql = <<>> /\ out.rows = <<>>

(* C22: facets() raises ValueError and sends no query when the WHERE       *)
(* clause holds no ParadeDB operator at any depth, and, with               *)
(* include_rows=True, when the queryset has no ordering or no upper row    *)
(* limit (an offset-only slice has none); no call that raises has sent a   *)
(* query.                                                                  *)
C22_FacetsPreconditions ==
    FacetsCalled =>
        /\ NoOperator => NoQuery
        /\ (call.given.include_rows /\ (NoOrdering \/ Self.high_mark = None))
                => NoQuery
        /\ out.kind # "ok" => out.sql = <<>>

C22_Witness ==
    /\ FacetsCalled
    /\ NoOperator
    /\ \E k \in 1..Len(Self.where.children) :
            /\ DOMAIN Self.where.children[k] = {"children"}
            /\ Self.where.children[k].children # <<>>
    /\ Self.order_by # <<>>
    /\ Self.high_mark # None
    /\ call.given.fields = <<"a">>
    /\ NoQuery

\* The aliases facets() annotates the rows with.
Aliases ==
    IF call.given.agg # None \/ Len(call.given.fields) = 1
    THEN {"_paradedb_facets"}
    ELSE {call.given.fields[k] \o "_terms" : k \in 1..Len(call.given.fields)}

\* The rows of the table inside the slice.
Sliced ==
    SubSeq(args, Self.low_mark + 1,
           IF Val(Self.high_mark) < Len(args) THEN Val(Self.high_mark) ELSE Len(args))

(* C23: when facets(include_rows=True) returns, the row query has been     *)
(* sent once and no returned row holds an aggregation alias                *)
(* (_paradedb_facets, or <field>_terms for several fields): the rows are   *)
(* the rows of the queryset, the first and the later ones alike.           *)
C23_AliasesStripped ==
    (FacetsCalled /\ call.given.include_rows /\ out.kind = "ok") =>
        /\ Cardinality({k \in 1..Len(out.sql) : out.sql[k] = "rows"}) = 1
        /\ \A k \in 1..Len(out.rows) :
                \A j \in 1..Len(out.rows[k]) : out.rows[k][j].key \notin Aliases
        /\ out.rows = Sliced

C23_Witness ==
    /\ FacetsCalled
    /\ call.given.include_rows
    /\ call.given.fields = <<"a", "b">>
    /\ out.kind = "ok"
    /\ out.sql = <<"rows">>
    /\ out.rows = <<<<[key |-> "id", value |-> PyInt(1)]>>,
                    <<[key |-> "id", value |-> PyInt(2)]>>>>
    /\ out.facets = [dict |-> <<[key |-> "a_terms", value |-> PyDict(<<"a_terms">>)],
                                [key |-> "b_terms", value |-> PyDict(<<"b_terms">>)]>>]

ExactCompiled == call.op = "exact"

(* C24: for a right-hand side that is no ParadeDB object the exact lookup  *)
(* gives the SQL and the parameters of the standard Exact lookup,          *)
(* <lhs> = %s with the parameters of the left-hand side and then the       *)
(* value; for a ParadeDB object it gives <lhs> <operator> <operands>, the  *)
(* SQL the object compiles to against the left-hand side, and the          *)
(* parameters of the left-hand side alone.                                 *)
C24_ExactLookup ==
    ExactCompiled =>
        LET lhs == call.given.lhs
        IN  IF call.given.value # None
            THEN /\ out.kind = "ok"
                 /\ out.sql = lhs.sql \o <<" = ", "%s">>
                 /\ out.params = lhs.params \o <<Val(call.given.value)>>
            ELSE /\ out.kind = as_sql(Self, lhs.sql).kind
                 /\ out.kind = "ok" =>
                        /\ Len(out.sql) > Len(lhs.sql) + 3
                        /\ SubSeq(out.sql, 1, Len(lhs.sql)) = lhs.sql
                        /\ out.sql[Len(lhs.sql) + 1] = " "
                        /\ out.sql[Len(lhs.sql) + 2] \in {"&&&", "|||", "==="}
                        /\ out.sql[Len(lhs.sql) + 3] = " "
                        /\ out.sql = as_sql(Self, lhs.sql).sql
                        /\ out.params = lhs.params

C24_Witness ==
    /\ ExactCompiled
    /\ call.given.value = None
    /\ out.kind = "ok"
    /\ out.sql = <<"COALESCE(", "L", ", ", "%s", ")", " ", "|||", " ",
                   "ARRAY[", "'", "a", "'", ", ", "'", "a", "'", "]">>
    /\ out.params = <<PyStr("x")>>

BoostInRange(boost) ==
    boost = None \/ (-2048 <= Val(boost) /\ Val(boost) <= 2048)

\* The range invariants of a term.
InRange(term) ==
    /\ term.kind = "Phrase" => (term.slop = None \/ Val(term.slop) >= 0)
    /\ term.kind = "Fuzzy" => term.distance \in {0, 1, 2}
    /\ term.kind = "Proximity" => term.distance >= 0
    /\ term.kind \in {"Phrase", "Fuzzy", "Proximity", "Parse", "Term", "Regex"}
            => BoostInRange(term.boost)

\* The values the last constructor call was given are inside their ranges.
GivenInRange ==
    /\ call.op = "Phrase" => (call.given.slop = None \/ Val(call.given.slop) >= 0)
    /\ call.op \in {"Fuzzy", "Proximity"} => call.given.distance >= 0
    /\ call.op = "Fuzzy" => call.given.distance <= 2
    /\ BoostInRange(call.given.boost)

(* C26: every term that exists has slop none or >= 0 (Phrase), distance in *)
(* {0, 1, 2} (Fuzzy), distance >= 0 (Proximity) and boost none or within   *)
(* [-2048, 2048]; a constructor given a value outside raises ValueError,   *)
(* no term comes to exist and no SQL is built; given values inside (Fuzzy  *)
(* distance 0, 1 and 2 among them) it returns the term.                    *)
C26_RangeInvariants ==
    /\ \A k \in 1..Len(args) : InRange(args[k])
    /\ expr # None => \A k \in 1..Len(Self._terms) : InRange(Self._terms[k])
    /\ call.op \in {"Phrase", "Fuzzy", "Proximity", "Term"} =>
            IF GivenInRange
            THEN /\ out.kind = "ok"
                 /\ args # <<>>
                 /\ args[Len(args)].kind = call.op
                 /\ args[Len(args)].boost = call.given.boost
                 /\ call.op \in {"Fuzzy", "Proximity"} =>
                        args[Len(args)].distance = call.given.distance
                 /\ call.op = "Phrase" => args[Len(args)].slop = call.given.slop
            ELSE /\ out.kind = "ValueError"
                 /\ out.sql = <<>>
                 /\ args = <<>>
                 /\ expr = None

C26_Witness ==
    /\ call.op = "Fuzzy"
    /\ call.given.distance = 3
    /\ call.given.boost = Some(2048)
    /\ out.kind = "ValueError"
    /\ out.msg = MsgFuzzyMax
    /\ args = <<>>

\* The families in the order they are looked for.
Families ==
    <<{"PQ"}, {"Parse", "Term", "Regex", "All"}, {"Phrase"}, {"Proximity"},
      {"Fuzzy"}, {"str"}>>

\* The first family, in that order, that a term of the expression is of.
Family ==
    CHOOSE f \in 1..Len(Families) :
        /\ \E k \in 1..Len(Self._terms) : Self._terms[k].kind \in Families[f]
        /\ \A g \in 1..(f - 1) :
                \A k \in 1..Len(Self._terms) : Self._terms[k].kind \notin Families[g]

Unmixed == \A k \in 1..Len(Self._terms) : Self._terms[k].kind \in Families[Family]

Gives(operators) ==
    out.kind = "ok" /\ Len(out.sql) > 3 /\ out.sql[3] \in operators

\* The orders the terms of the expression can be given in.
Orders ==
    {p \in [1..Len(Self._terms) -> 1..Len(Self._terms)] :
        \A i, j \in 1..Len(Self._terms) : p[i] = p[j] => i = j}

(* C27: the outcome of a compilation is the one of the first family, in    *)
(* the order PQ, Parse/Term/Regex/All, Phrase, Proximity, Fuzzy, plain     *)
(* strings, that a term belongs to: its operator, or its error when terms  *)
(* of other families come with it; and it is the same, operator or error   *)
(* kind and message, for the terms in any other order.                     *)
C27_FamilyPriority ==
    Compiled =>
        /\ CASE Family = 1 ->
                    IF Len(Self._terms) = 1 THEN Gives({"|||", "&&&"})
                    ELSE Raised("ValueError", MsgPQSole)
             [] Family = 2 ->
                    IF Len(Self._terms) = 1 THEN Gives({"@@@"})
                    ELSE Raised("ValueError", MsgSingleTerm)
             [] Family = 3 ->
                    IF Unmixed THEN Gives({"###"})
                    ELSE Raised("TypeError", MsgOnlyPhrase)
             [] Family = 4 ->
                    IF Unmixed
                    THEN Gives({"##", "##>"}) \/ Raised("ValueError", MsgOrderedFlag)
                    ELSE Raised("TypeError", MsgOnlyProximity)
             [] Family = 5 ->
                    IF Unmixed
                    THEN \/ Gives({"|||", "&&&", "==="})
                         \/ Raised("ValueError", MsgFuzzySameOperator)
                    ELSE Raised("TypeError", MsgOnlyFuzzy)
             [] Family = 6 -> Gives({"|||", "&&&", "==="})
        /\ \A p \in Orders :
                LET other == _resolve_terms(
                                [Self EXCEPT !._terms =
                                    [k \in 1..Len(Self._terms) |-> Self._terms[p[k]]]])
                IN  /\ other.kind = out.kind
                    /\ other.msg = out.msg
                    /\ out.kind = "ok" => other.operator = out.sql[3]

C27_Witness ==
    /\ Compiled
    /\ Len(Self._terms) = 2
    /\ Self._terms[1].kind = "Fuzzy"
    /\ Self._terms[2].kind = "Phrase"
    /\ Raised("TypeError", MsgOnlyPhrase)

(* C28: an expression of two or more terms, one of them a Parse, Term,    *)
(* Regex or All and none a PQ, raises ValueError 'must be a single term'   *)
(* when compiled, whatever the other terms and their order; no call ever   *)
(* raises the TypeError 'cannot be mixed with other terms'.                *)
C28_QueryMixNeverTypeError ==
    /\ out.msg # MsgCannotMix
    /\ (/\ Compiled
        /\ Len(Self._terms) >= 2
        /\ AnyKind(Self._terms, {"Parse", "Term", "Regex", "All"})
        /\ ~AnyKind(Self._terms, {"PQ"}))
            => Raised("ValueError", MsgSingleTerm)

C28_Witness ==
    /\ Compiled
    /\ Len(Self._terms) = 2
    /\ Self._terms[1].kind = "str"
    /\ Self._terms[2].kind = "Regex"
    /\ Raised("ValueError", MsgSingleTerm)

(***************************************************************************)
(* C29: the SQL of a compiled MoreLikeThis has as many %s placeholders as    *)
(* it has parameters.  Each pdb.more_like_this(...) call binds the id or the *)
(* JSON document, then the fields (for an id only), then the stopwords.  For *)
(* product_ids there is one <key> @@@ pdb.more_like_this(...) per id, in the *)
(* order of the ids, joined with OR inside a single pair of parentheses,     *)
(* and each call repeats the fields and the stopwords.                       *)
(***************************************************************************)
Tokens(token) == Cardinality({k \in 1..Len(out.sql) : out.sql[k] = token})

Bound(value) ==
    <<value>>
        \o (IF Self.document = None /\ Self.fields # None
            THEN Val(Self.fields) ELSE <<>>)
        \o (IF Self.stopwords # None THEN Val(Self.stopwords) ELSE <<>>)

MltHeads ==
    SelectSeq([k \in 1..Len(out.sql) |-> k],
              LAMBDA k : out.sql[k] = "pdb.more_like_this(")

C29_MoreLikeThisParams ==
    CompiledMLT =>
        /\ out.kind = "ok"
        /\ Tokens("%s") = Len(out.params)
        /\ Len(MltHeads) = MltCalls
        /\ \A k \in 1..MltCalls :
                /\ MltHeads[k] > Len(Lhs) + 1
                /\ SubSeq(out.sql, MltHeads[k] - Len(Lhs) - 1, MltHeads[k] - 1)
                        = Lhs \o <<" @@@ ">>
                /\ out.sql[MltHeads[k] + 1] = "%s"
        /\ Self.product_id # None => out.params = Bound(Val(Self.product_id))
        /\ Self.document # None => out.params = Bound(Val(Self.document))
        /\ Self.product_ids = None => Tokens(" OR ") = 0 /\ Tokens("(") = 0
        /\ Self.product_ids # None =>
                LET ids == Val(Self.product_ids)
                IN  /\ out.params = join([k \in 1..Len(ids) |-> Bound(ids[k])], <<>>)
                    /\ out.sql[1] = "(" /\ out.sql[Len(out.sql)] = ")"
                    /\ Tokens("(") = 1
                    /\ Tokens(")") = Len(ids) + 1
                    /\ Tokens(" OR ") = Len(ids) - 1
                    /\ \A k \in 1..(Len(ids) - 1) :
                            /\ out.sql[MltHeads[k + 1] - Len(Lhs) - 2] = " OR "
                            /\ out.sql[MltHeads[k + 1] - Len(Lhs) - 3] = ")"

C29_Witness ==
    /\ CompiledMLT
    /\ out.kind = "ok"
    /\ Self.product_ids # None /\ Len(Val(Self.product_ids)) >= 2
    /\ Self.fields # None /\ Val(Self.fields) # <<>>
    /\ Self.stopwords # None /\ Val(Self.stopwords) # <<>>
    /\ Len(out.params) = Len(Val(Self.product_ids))
            * (1 + Len(Val(Self.fields)) + Len(Val(Self.stopwords)))

(***************************************************************************)
(* C30: in the config string of a rendered tokenizer the keys come in the    *)
(* order alias, named_args keys, filter flags, and a key set earlier keeps   *)
(* its value when a filter or the stemmer has the same name.  The stemmer    *)
(* is rendered as stemmer=<name> only when filters is absent or empty or     *)
(* holds 'stemmer'; with other filters only it is left out and no error is   *)
(* raised.                                                                   *)
(***************************************************************************)
SingleTokenizer(config) ==
    /\ config.json_keys = None
    /\ config.tokenizers = None
    /\ config.tokenizer # None
    /\ _is_bare_tokenizer_name(Val(config.tokenizer))
    /\ ~(config.named_args # None /\ config.options # None)

Unconfigured(config) ==
    /\ config.json_keys = None
    /\ config.tokenizers = None
    /\ config.args = None /\ config.named_args = None /\ config.options = None
    /\ config.filters = None /\ config.stemmer = None /\ config.alias = None

NamedArgs(config) ==
    IF config.named_args # None THEN Val(config.named_args)
    ELSE IF config.options # None THEN Val(config.options)
    ELSE <<>>

Stemmer(config) ==
    IF config.stemmer \in {None, Some("")} THEN None ELSE config.stemmer

FirstSeen(keys) ==
    LET first == SelectSeq([i \in 1..Len(keys) |-> i],
                           LAMBDA i : \A j \in 1..(i - 1) : keys[j] # keys[i])
    IN  [i \in 1..Len(first) |-> keys[first[i]]]

ExpectedKeys(config) ==
    FirstSeen((IF config.alias # None THEN <<"alias">> ELSE <<>>)
              \o [i \in 1..Len(NamedArgs(config)) |-> NamedArgs(config)[i].key]
              \o (IF Given(config.filters) THEN Val(config.filters)
                  ELSE IF Stemmer(config) # None THEN <<"stemmer">>
                  ELSE <<>>))

QuoteMarks == SelectSeq([i \in 1..Len(out.sql) |-> i], LAMBDA i : out.sql[i] = "'")

\* The config string: the last quoted argument before WITH (key_field='...').
ConfigString ==
    SubSeq(out.sql, QuoteMarks[Len(QuoteMarks) - 3] + 1, QuoteMarks[Len(QuoteMarks) - 2] - 1)

ConfigKeys == [i \in 1..((Len(ConfigString) + 1) \div 4) |-> ConfigString[4 * i - 3]]

ConfigValue(key) ==
    ConfigString[(CHOOSE i \in 1..Len(ConfigKeys) : ConfigKeys[i] = key) * 4 - 1]

HasKey(key) == \E i \in 1..Len(ConfigKeys) : ConfigKeys[i] = key

C30_TokenizerConfigOrder ==
    Created =>
        \A k \in 1..Len(args) :
            LET config == args[k].value
                named == NamedArgs(config)
                is_named(key) == \E i \in 1..Len(named) : named[i].key = key
            IN  (/\ SingleTokenizer(config)
                 /\ \A j \in 1..Len(args) : j # k => Unconfigured(args[j].value))
                => /\ out.kind = "ok"
                   /\ ExpectedKeys(config) # <<>> =>
                        /\ Len(QuoteMarks) >= 4
                        /\ Len(ConfigString) = 4 * Len(ConfigKeys) - 1
                        /\ ConfigKeys = ExpectedKeys(config)
                        /\ \A i \in 1..Len(ConfigKeys) :
                                /\ ConfigString[4 * i - 2] = "="
                                /\ i > 1 => ConfigString[4 * i - 4] = ","
                        /\ \A i \in 1..Len(named) :
                                ConfigValue(named[i].key)
                                    = _render_config_value(named[i].value)
                        /\ (config.alias # None /\ ~is_named("alias")) =>
                                ConfigValue("alias") = Val(config.alias)
                        /\ \A i \in 1..Len(ConfigKeys) :
                                (~is_named(ConfigKeys[i])
                                 /\ ConfigKeys[i] \notin {"alias", "stemmer"})
                                    => ConfigString[4 * i - 1] = "true"
                        /\ (Stemmer(config) # None /\ ~is_named("stemmer")) =>
                                /\ HasKey("stemmer") <=>
                                        \/ ~Given(config.filters)
                                        \/ \E i \in 1..Len(Val(config.filters)) :
                                                Val(config.filters)[i] = "stemmer"
                                /\ HasKey("stemmer") =>
                                        ConfigValue("stemmer")
                                            = Val(Stemmer(config))
                   /\ ExpectedKeys(config) = <<>> =>
                        \A i \in 1..Len(out.sql) : out.sql[i] # "="

C30_Witness ==
    /\ Created
    /\ out.kind = "ok"
    /\ Len(args) = 1
    /\ args[1].value.tokenizer = Some(Simple)
    /\ args[1].value.filters = Some(<<"lowercase">>)
    /\ args[1].value.stemmer = Some("english")
    /\ ConfigString = <<"lowercase", "=", "true">>

====
